---- MODULE Spec2Model ----
(***************************************************************************)
(* cappuccino (src/main.go, version 0.1.2): the manifest execution engine. *)
(* Strings are TLA+ strings; positions follow Go (0-based byte offsets),   *)
(* so s[a:b] is Slice(s, a, b).                                            *)
(***************************************************************************)
EXTENDS Integers, Sequences, FiniteSets, TLC

VARIABLES
    opts,       \* the command line options (main.go:25-38), read-only
    clone,      \* the tree `git clone` made in its own directory
    config,     \* the parsed Config (main.go:45-78)
    fs,         \* the tree of the working directory: path -> file state
    pc,         \* where the run is
    i,          \* processConfig's loop index (0-based, main.go:174)
    j,          \* processAction's loop index (0-based, main.go:182)
    out,        \* the lines printed by text(), in order
    trace,      \* history: what was dispatched, spawned and finished, in order
    call        \* the single call made by the unit specifications (else NoCall)

vars == <<opts, clone, config, fs, pc, i, j, out, trace, call>>

(***************************************************************************)
(* Bounds of the model.                                                    *)
(***************************************************************************)
MaxActions == 2
MaxEntries == 3
MaxLen == 4
MaxValueLen == 2
MaxIndent == 2

(***************************************************************************)
(* Go's strings package, as main.go uses it.                               *)
(***************************************************************************)
Slice(s, a, b) == SubSeq(s, a + 1, b)

SliceFrom(s, a) == SubSeq(s, a + 1, Len(s))

HasPrefix(s, p) == Len(s) >= Len(p) /\ Slice(s, 0, Len(p)) = p

\* strings.Index: the 0-based offset of the first occurrence, -1 when none.
Index(s, sub) ==
    LET hits == { k \in 0..(Len(s) - Len(sub)) : Slice(s, k, k + Len(sub)) = sub }
    IN  IF hits = {} THEN -1 ELSE CHOOSE k \in hits : \A m \in hits : k <= m

Contains(s, sub) == Index(s, sub) >= 0

\* strings.Count for a non-empty sep: non-overlapping occurrences, leftmost first.
RECURSIVE Count(_, _)
Count(s, sep) ==
    IF sep = "" THEN Len(s) + 1
    ELSE LET k == Index(s, sep)
         IN  IF k < 0 THEN 0 ELSE 1 + Count(SliceFrom(s, k + Len(sep)), sep)

\* The loop of strings.Replace(s, old, new, -1) once old is known to occur:
\* n replacements are left, `first` is true in the first round.
RECURSIVE ReplaceLoop(_, _, _, _, _)
ReplaceLoop(s, old, new, n, first) ==
    IF n = 0 THEN s
    ELSE LET k == IF old = "" THEN (IF first THEN 0 ELSE 1) ELSE Index(s, old)
         IN  Slice(s, 0, k) \o new
                 \o ReplaceLoop(SliceFrom(s, k + Len(old)), old, new, n - 1, FALSE)

\* strings.Replace(s, old, new, 1): the first occurrence only.
ReplaceFirst(s, old, new) ==
    IF old = new \/ Count(s, old) = 0 THEN s
    ELSE ReplaceLoop(s, old, new, 1, TRUE)

\* strings.Replace(s, old, new, -1).
Replace(s, old, new) ==
    IF old = new \/ Count(s, old) = 0 THEN s
    ELSE ReplaceLoop(s, old, new, Count(s, old), TRUE)

\* strings.Split(s, sep) for a non-empty sep.
RECURSIVE Split(_, _)
Split(s, sep) ==
    LET k == Index(s, sep)
    IN  IF k < 0 THEN <<s>>
        ELSE <<Slice(s, 0, k)>> \o Split(SliceFrom(s, k + Len(sep)), sep)

\* strings.Join.
RECURSIVE Join(_, _)
Join(a, sep) ==
    IF Len(a) = 0 THEN ""
    ELSE IF Len(a) = 1 THEN a[1]
    ELSE a[1] \o sep \o Join(Tail(a), sep)

\* strings.Repeat for count >= 0 (a negative count panics: see indentPanics).
RECURSIVE Repeat(_, _)
Repeat(s, count) == IF count <= 0 THEN "" ELSE s \o Repeat(s, count - 1)

WhiteSpace == {" ", "\t", "\n", "\r"}

RECURSIVE TrimLeft(_)
TrimLeft(s) ==
    IF Len(s) > 0 /\ Slice(s, 0, 1) \in WhiteSpace THEN TrimLeft(SliceFrom(s, 1)) ELSE s

RECURSIVE TrimRight(_)
TrimRight(s) ==
    IF Len(s) > 0 /\ Slice(s, Len(s) - 1, Len(s)) \in WhiteSpace
    THEN TrimRight(Slice(s, 0, Len(s) - 1)) ELSE s

\* A trim of the leading white space only.
TrimSpaceLeading(s) == TrimLeft(s)

\* strings.TrimSpace.
TrimSpace(s) == TrimRight(TrimLeft(s))

(***************************************************************************)
(* The working tree.  A path is the string the program passes to the os    *)
(* package, relative to the repository root ("." is the root itself).      *)
(* mode holds the permission letters the process has on the object.        *)
(***************************************************************************)
Root == "."

Paths ==
    { ".cappuccino", ".cappuccino/a.txt", ".cappuccino.yml", ".git",
      "a.txt", "b", "b/c.txt", "b/e", "b/e/f.txt", "d.txt" }

\* filepath.Walk visits a directory's names in lexical order, depth first.
WalkOrder ==
    << ".cappuccino", ".cappuccino/a.txt", ".cappuccino.yml", ".git",
       "a.txt", "b", "b/c.txt", "b/e", "b/e/f.txt", "d.txt" >>

NoFile == [kind |-> "none", data |-> "", mode |-> ""]

File(data, mode) == [kind |-> "file", data |-> data, mode |-> mode]

Directory(mode) == [kind |-> "dir", data |-> "", mode |-> mode]

Nil == ""

\* The offset of the last "/" of p, -1 when there is none.
RECURSIVE LastSlash(_)
LastSlash(p) ==
    IF Len(p) = 0 THEN -1
    ELSE IF Slice(p, Len(p) - 1, Len(p)) = "/" THEN Len(p) - 1
    ELSE LastSlash(Slice(p, 0, Len(p) - 1))

\* The directory a path lives in.
Parent(p) == IF LastSlash(p) < 0 THEN Root ELSE Slice(p, 0, LastSlash(p))

\* s without the slashes at its end.
RECURSIVE StripSlashes(_)
StripSlashes(s) ==
    IF Len(s) > 0 /\ Slice(s, Len(s) - 1, Len(s)) = "/"
    THEN StripSlashes(Slice(s, 0, Len(s) - 1)) ELSE s

\* A name with a slash behind it names a directory, or nothing.
Stat(f, p) ==
    IF p = Root THEN Directory("rw")
    ELSE IF p \in DOMAIN f THEN f[p]
    ELSE IF StripSlashes(p) \in DOMAIN f /\ f[StripSlashes(p)].kind = "dir"
    THEN f[StripSlashes(p)]
    ELSE NoFile

Exists(f, p) == Stat(f, p).kind # "none"

IsDir(f, p) == Stat(f, p).kind = "dir"

IsRegular(f, p) == Stat(f, p).kind = "file"

CanRead(f, p) == Contains(Stat(f, p).mode, "r")

CanWrite(f, p) == Contains(Stat(f, p).mode, "w")

Children(f, p) == { q \in DOMAIN f : Exists(f, q) /\ Parent(q) = p }

\* A tree the operating system can hold: every object lives in a directory.
WellFormed(f) == \A p \in DOMAIN f : Exists(f, p) => IsDir(f, Parent(p))

\* os.Open (O_RDONLY): the error, Nil when the file is opened.
OpenErr(f, p) ==
    IF ~Exists(f, p) THEN "open " \o p \o ": no such file or directory"
    ELSE IF ~CanRead(f, p) THEN "open " \o p \o ": permission denied"
    ELSE Nil

\* os.Create (O_RDWR|O_CREATE|O_TRUNC, 0666): the error, Nil when it succeeds.
CreateErr(f, p) ==
    IF IsDir(f, p) THEN "open " \o p \o ": is a directory"
    ELSE IF IsRegular(f, p)
         THEN (IF CanRead(f, p) /\ CanWrite(f, p) THEN Nil
               ELSE "open " \o p \o ": permission denied")
    ELSE IF p \notin DOMAIN f \/ ~IsDir(f, Parent(p))
         THEN "open " \o p \o ": no such file or directory"
    ELSE IF ~CanWrite(f, Parent(p)) THEN "open " \o p \o ": permission denied"
    ELSE Nil

\* The tree after os.Create: the file exists and is empty.
Create(f, p) ==
    IF CreateErr(f, p) # Nil THEN f
    ELSE IF IsRegular(f, p) THEN [f EXCEPT ![p].data = ""]
    ELSE [f EXCEPT ![p] = File("", "rw")]

(***************************************************************************)
(* Filesystem operation primitives (main.go:333-382).  Each returns the    *)
(* tree it leaves and the error it returns.                                *)
(***************************************************************************)
\* copyFile (main.go:337-357): both files are opened before either error is
\* looked at; io.Copy then reads the source as it is after os.Create.
copyFile(f, source, destination) ==
    LET inErr  == OpenErr(f, source)
        outErr == CreateErr(f, destination)
        g      == Create(f, destination)
    IN  IF inErr # Nil THEN [fs |-> g, err |-> inErr]
        ELSE IF outErr # Nil THEN [fs |-> g, err |-> outErr]
        ELSE IF IsDir(g, source)
             THEN [fs |-> g, err |-> "read " \o source \o ": is a directory"]
        ELSE [fs |-> [g EXCEPT ![destination].data = g[source].data], err |-> Nil]

\* os.Remove: the error, Nil when the object is removed.
RemoveErr(f, p) ==
    IF ~Exists(f, p) THEN "remove " \o p \o ": no such file or directory"
    ELSE IF ~CanWrite(f, Parent(p)) THEN "remove " \o p \o ": permission denied"
    ELSE IF IsDir(f, p) /\ Children(f, p) # {}
         THEN "remove " \o p \o ": directory not empty"
    ELSE Nil

\* deleteFile (main.go:363-365).
deleteFile(f, path) ==
    IF RemoveErr(f, path) # Nil THEN [fs |-> f, err |-> RemoveErr(f, path)]
    ELSE [fs |-> [f EXCEPT ![path] = NoFile], err |-> Nil]

\* A moveFile that forgets the source.
moveFileKeepsSource(f, source, destination) == copyFile(f, source, destination)

\* moveFile (main.go:372-382): copy, then delete the source.
moveFile(f, source, destination) ==
    LET copied == copyFile(f, source, destination)
    IN  IF copied.err # Nil THEN copied
        ELSE deleteFile(copied.fs, source)

(***************************************************************************)
(* Console output (main.go:523-558).  fatih/color writes no escape codes   *)
(* when standard output is not a terminal, which is the output modelled.   *)
(***************************************************************************)
colored(content, attribute) == content

prefix == "Engine"

\* text (main.go:535-550) with returnLine = true: the line it prints.
text(content, attribute) == colored(prefix, attribute) \o " " \o content \o "\n"

Digits == "0123456789"

\* fmt's %d for n >= 0.
RECURSIVE Itoa(_)
Itoa(n) == IF n < 10 THEN Slice(Digits, n, n + 1)
           ELSE Itoa(n \div 10) \o Slice(Digits, n % 10, (n % 10) + 1)

\* fmt's %03d for n >= 0.
Itoa03(n) == Repeat("0", 3 - Len(Itoa(n))) \o Itoa(n)

(***************************************************************************)
(* Text substitution engine (main.go:384-441).                             *)
(***************************************************************************)
\* Map (main.go:494-502); the callback gets the 0-based index.
Map(vs, f(_, _)) == [k \in 1..Len(vs) |-> f(vs[k], k - 1)]

\* An indentBlock whose callback does not look at the index.
indentBlockEveryLine(content, indent) ==
    Map(Split(content, "\n"), LAMBDA s, k : Repeat(" ", indent) \o s)

\* indentBlock (main.go:413-421).  indent is the address of a local of
\* processContent, never nil, so every line but the first gets the spaces.
indentBlock(content, indent) ==
    Map(Split(content, "\n"),
        LAMBDA s, k : IF k # 0 THEN Repeat(" ", indent) \o s ELSE s)

\* strings.Repeat panics on a negative count (main.go:416).
indentPanics(content, indent) == indent < 0 /\ Len(Split(content, "\n")) > 1

\* ioutil.ReadFile: the error, Nil when the content is read.
ReadFileErr(f, p) ==
    IF OpenErr(f, p) # Nil THEN OpenErr(f, p)
    ELSE IF IsDir(f, p) THEN "read " \o p \o ": is a directory"
    ELSE Nil

\* ioutil.WriteFile (O_WRONLY|O_CREATE|O_TRUNC) on a file that exists.
WriteFileErr(f, p) ==
    IF ~CanWrite(f, p) THEN "open " \o p \o ": permission denied" ELSE Nil

\* A substituteInFile that writes behind what the file holds.
substituteInFileAppends(f, path, variable, value, indent) ==
    IF ReadFileErr(f, path) # Nil
    THEN [fs |-> f, err |-> ReadFileErr(f, path), panic |-> FALSE]
    ELSE IF WriteFileErr(f, path) # Nil
    THEN [fs |-> f, err |-> WriteFileErr(f, path), panic |-> FALSE]
    ELSE [fs |-> [f EXCEPT ![path].data =
                      f[path].data \o Replace(f[path].data, variable,
                                              Join(indentBlock(value, indent), "\n"))],
          err |-> Nil, panic |-> FALSE]

\* substituteInFile (main.go:401-411).
substituteInFile(f, path, variable, value, indent) ==
    IF ReadFileErr(f, path) # Nil
    THEN [fs |-> f, err |-> ReadFileErr(f, path), panic |-> FALSE]
    ELSE IF indentPanics(value, indent)
    THEN [fs |-> f, err |-> Nil, panic |-> TRUE]
    ELSE LET indentedBlock == Join(indentBlock(value, indent), "\n")
             newBytes == Replace(f[path].data, variable, indentedBlock)
         IN  IF WriteFileErr(f, path) # Nil
             THEN [fs |-> f, err |-> WriteFileErr(f, path), panic |-> FALSE]
             ELSE [fs |-> [f EXCEPT ![path].data = newBytes],
                   err |-> Nil, panic |-> FALSE]

\* A walk that lists the root directory only.
VisitedTopLevel(f, k) == Exists(f, WalkOrder[k]) /\ Parent(WalkOrder[k]) = Root

\* Whether filepath.Walk's callback visits WalkOrder[k]: the object exists.
Visited(f, k) == Exists(f, WalkOrder[k])

\* The error filepath.Walk hands the callback for a directory it cannot list.
WalkErr(f, p) ==
    IF IsDir(f, p) /\ ~CanRead(f, p) THEN "open " \o p \o ": permission denied"
    ELSE Nil

\* A walk whose callback remembers the error of a file and goes on.
RECURSIVE substituteWalkGoesOn(_, _, _, _, _)
substituteWalkGoesOn(f, k, variable, value, indent) ==
    IF k > Len(WalkOrder) THEN [fs |-> f, err |-> Nil, panic |-> FALSE]
    ELSE IF ~Exists(f, WalkOrder[k]) \/ IsDir(f, WalkOrder[k])
    THEN substituteWalkGoesOn(f, k + 1, variable, value, indent)
    ELSE LET r == substituteInFile(f, WalkOrder[k], variable, value, indent)
             rest == substituteWalkGoesOn(r.fs, k + 1, variable, value, indent)
         IN  IF r.err # Nil THEN [rest EXCEPT !.err = r.err] ELSE rest

\* substituteInPath (main.go:428-441) from WalkOrder[k] on: the callback
\* substitutes in everything that is not a directory and returns the first
\* error, which ends the walk.
RECURSIVE substituteWalk(_, _, _, _, _)
substituteWalk(f, k, variable, value, indent) ==
    IF k > Len(WalkOrder) THEN [fs |-> f, err |-> Nil, panic |-> FALSE]
    ELSE IF ~Visited(f, k) THEN substituteWalk(f, k + 1, variable, value, indent)
    ELSE IF IsDir(f, WalkOrder[k])
    THEN (IF WalkErr(f, WalkOrder[k]) # Nil
          THEN [fs |-> f, err |-> WalkErr(f, WalkOrder[k]), panic |-> FALSE]
          ELSE substituteWalk(f, k + 1, variable, value, indent))
    ELSE LET r == substituteInFile(f, WalkOrder[k], variable, value, indent)
         IN  IF r.err # Nil \/ r.panic THEN r
             ELSE substituteWalk(r.fs, k + 1, variable, value, indent)

substituteInPath(f, variable, value, indent) ==
    substituteWalk(f, 1, variable, value, indent)

\* substituteFile (main.go:389-395).
substituteFile(f, path, variable, value, indent) ==
    IF path # "" THEN substituteInFile(f, path, variable, value, indent)
    ELSE substituteInPath(f, variable, value, indent)

(***************************************************************************)
(* Warning scanner (main.go:443-487).                                      *)
(***************************************************************************)
WarningToken == "[cappuccino-warning]"

\* bufio.ScanLines: a trailing carriage return is not part of the line.
DropCR(s) ==
    IF Len(s) > 0 /\ Slice(s, Len(s) - 1, Len(s)) = "\r"
    THEN Slice(s, 0, Len(s) - 1) ELSE s

\* The tokens bufio.Scanner yields with its default split function.
RECURSIVE ScanLines(_)
ScanLines(data) ==
    IF data = "" THEN <<>>
    ELSE LET k == Index(data, "\n")
         IN  IF k < 0 THEN <<DropCR(data)>>
             ELSE <<DropCR(Slice(data, 0, k))>> \o ScanLines(SliceFrom(data, k + 1))

\* The message of main.go:475-480 for one line.
warningText(line, path) ==
    text("\t-> Please make sure to setup needed information located "
             \o colored("L-" \o Itoa03(line), "FgYellow")
             \o " in " \o colored(path, "FgYellow"), "FgYellow")

\* The loop of processWarningInFile (main.go:471-484) from line number `line`.
RECURSIVE scanFrom(_, _, _)
scanFrom(lines, line, path) ==
    IF line > Len(lines) THEN <<>>
    ELSE (IF Contains(lines[line], WarningToken)
          THEN <<warningText(line, path)>> ELSE <<>>)
         \o scanFrom(lines, line + 1, path)

\* processWarningInFile (main.go:464-487): the lines it prints.
processWarningInFile(f, path) ==
    IF OpenErr(f, path) # Nil THEN <<>>
    ELSE scanFrom(ScanLines(Stat(f, path).data), 1, path)

\* A walk whose callback returns the error of the file it could not open.
RECURSIVE warningWalkStopsAtFile(_, _)
warningWalkStopsAtFile(f, k) ==
    IF k > Len(WalkOrder) THEN <<>>
    ELSE IF ~Visited(f, k) THEN warningWalkStopsAtFile(f, k + 1)
    ELSE IF Contains(WalkOrder[k], ".cappuccino")
    THEN warningWalkStopsAtFile(f, k + 1)
    ELSE IF IsDir(f, WalkOrder[k])
    THEN (IF WalkErr(f, WalkOrder[k]) # Nil THEN <<>>
          ELSE warningWalkStopsAtFile(f, k + 1))
    ELSE IF OpenErr(f, WalkOrder[k]) # Nil THEN <<>>
    ELSE processWarningInFile(f, WalkOrder[k]) \o warningWalkStopsAtFile(f, k + 1)

\* The walk of processWarnings (main.go:448-461) from WalkOrder[k] on.
RECURSIVE warningWalk(_, _)
warningWalk(f, k) ==
    IF k > Len(WalkOrder) THEN <<>>
    ELSE IF ~Visited(f, k) THEN warningWalk(f, k + 1)
    ELSE IF Contains(WalkOrder[k], ".cappuccino") THEN warningWalk(f, k + 1)
    ELSE IF IsDir(f, WalkOrder[k])
    THEN (IF WalkErr(f, WalkOrder[k]) # Nil THEN <<>> ELSE warningWalk(f, k + 1))
    ELSE processWarningInFile(f, WalkOrder[k]) \o warningWalk(f, k + 1)

\* processWarnings (main.go:446-462): the lines it prints.
processWarnings(f) ==
    <<text("Parsing repository for valuable information", "FgYellow")>>
        \o warningWalk(f, 1)

(***************************************************************************)
(* Action dispatcher (main.go:187-310).                                    *)
(***************************************************************************)
\* ActionContent (main.go:68-78) as yaml leaves a field the manifest omits.
ZeroContent ==
    [Type |-> "", Command |-> "", Source |-> "", Destination |-> "",
     Variable |-> "", Text |-> "", Path |-> "", Value |-> "", Indent |-> 0]

\* GitOptions (main.go:25-28): no url given, and the url of the README with
\* the default branch.
ZeroOpts == [GitUrl |-> "", Branch |-> "master"]

DefaultOpts == [GitUrl |-> "git@github.com:u/r.git", Branch |-> "master"]

\* A dispatcher in which the action's type overrides the entry's.
contentTypeActionFirst(action, content) ==
    IF action.Type = "" THEN content.Type ELSE action.Type

\* main.go:193-199.
contentType(action, content) ==
    IF content.Type = "" THEN action.Type ELSE content.Type

\* A dispatcher that searches for the bare variable name.
variableOfUnframed(ctype, content) ==
    IF ctype = "replace" THEN content.Text ELSE content.Variable

\* main.go:215-220: the text searched for.
variableOf(ctype, content) ==
    IF ctype = "replace" THEN content.Text
    ELSE "[cappuccino-var-" \o content.Variable \o "]"

\* main.go:222-227.
shownPath(content) == IF content.Path # "" THEN content.Path ELSE "all files"

\* A template entry that reads the file its `source` names.
sourceOfField(ctype, content) == content.Source

\* main.go:241-247: the files of a copy or template entry.
sourceOf(ctype, content) ==
    IF ctype = "copy" THEN content.Source ELSE ".cappuccino/" \o content.Path

destinationOf(ctype, content) ==
    IF ctype = "copy" THEN content.Destination ELSE content.Path

\* A dispatcher that prints its progress line behind the operation, when it
\* succeeded.
endedQuiet(r, progress, op) ==
    IF r.panic
    THEN [fs |-> r.fs, out |-> <<>>, next |-> "panic", op |-> op, err |-> "panic"]
    ELSE IF r.err # Nil
    THEN [fs |-> r.fs, out |-> <<text(r.err, "FgRed")>>,
          next |-> "exit", op |-> op, err |-> r.err]
    ELSE [fs |-> r.fs, out |-> <<progress>>, next |-> "return", op |-> op,
          err |-> Nil]

\* A dispatcher that prints the error of an operation and goes on.
endedGoesOn(r, progress, op) ==
    IF r.err # Nil
    THEN [fs |-> r.fs, out |-> <<progress, text(r.err, "FgRed")>>,
          next |-> "return", op |-> op, err |-> r.err]
    ELSE [fs |-> r.fs, out |-> <<progress>>, next |-> "return", op |-> op,
          err |-> Nil]

\* How a case of processContent ends once its operation returned r: an error
\* is printed and the process exits (main.go:233-236, 254-257, 268-271,
\* 280-283); a panic of strings.Repeat ends it with a crash.
ended(r, progress, op) ==
    IF r.panic
    THEN [fs |-> r.fs, out |-> <<progress>>, next |-> "panic", op |-> op,
          err |-> "panic"]
    ELSE IF r.err # Nil
    THEN [fs |-> r.fs, out |-> <<progress, text(r.err, "FgRed")>>,
          next |-> "exit", op |-> op, err |-> r.err]
    ELSE [fs |-> r.fs, out |-> <<progress>>, next |-> "return", op |-> op,
          err |-> Nil]

\* A switch whose default case reports the type and exits.
noMatchExits(f) ==
    [fs |-> f, out |-> <<text("unknown type", "FgRed")>>, next |-> "exit",
     op |-> "none", err |-> Nil]

\* The switch of main.go:201-284 has no default case: a type that matches no
\* case falls out of it and processContent returns.
noMatch(f) ==
    [fs |-> f, out |-> <<>>, next |-> "return", op |-> "none", err |-> Nil]

NoPanic(r) == [fs |-> r.fs, err |-> r.err, panic |-> FALSE]

\* processContent (main.go:192-285) up to the point where it returns, exits
\* or has to run a child process: the tree it leaves, the lines it prints,
\* how it goes on and the operation it called.
processContent(f, action, content) ==
    LET ctype == contentType(action, content)
    IN  CASE ctype = "exec" ->
               [fs |-> f,
                out |-> <<text("\t-> " \o content.Command, "FgGreen")>>,
                next |-> "exec", op |-> "executeCommand", err |-> Nil]
          [] ctype \in {"replace", "substitute"} ->
               ended(substituteFile(f, content.Path, variableOf(ctype, content),
                                    TrimSpace(content.Value), content.Indent),
                     text("\t-> " \o colored(variableOf(ctype, content), "FgCyan")
                              \o " in " \o shownPath(content), "FgGreen"),
                     "substituteFile")
          [] ctype \in {"copy", "template"} ->
               ended(NoPanic(copyFile(f, sourceOf(ctype, content),
                                      destinationOf(ctype, content))),
                     text("\t-> " \o colored(sourceOf(ctype, content), "FgBlue")
                              \o " -> "
                              \o colored(destinationOf(ctype, content), "FgBlue"),
                          "FgGreen"),
                     "copyFile")
          [] ctype = "move" ->
               ended(NoPanic(moveFile(f, content.Source, content.Destination)),
                     text("\t-> " \o colored(content.Source, "FgMagenta")
                              \o " -> "
                              \o colored(content.Destination, "FgMagenta"),
                          "FgGreen"),
                     "moveFile")
          [] ctype = "delete" ->
               ended(NoPanic(deleteFile(f, content.Path)),
                     text("\t-> " \o colored(content.Path, "FgRed"), "FgGreen"),
                     "deleteFile")
          [] OTHER -> noMatch(f)

\* main.go:207-208: the program and its arguments.
executableCommand(command) == Split(command, " ")

\* exec.Cmd.Run cannot start a program that has no name; whether any other
\* program can be started is up to the machine.
CanStart(argv) == IF argv[1] = "" THEN {FALSE} ELSE BOOLEAN

\* What a child process writes to its standard error is its own business.
Stderr(argv, code) == argv[1] \o ": exit status " \o Itoa(code)

\* The error of exec.Cmd.Run for a child that ended with `code`.
RunErr(code) == IF code = 0 THEN Nil ELSE "exit status " \o Itoa(code)

\* The error of exec.Cmd.Run for a program that could not be started.
StartErr(argv) == "exec: " \o argv[1] \o ": not started"

\* The exit codes a child may end with.
ExitCodes == {0, 1}

(***************************************************************************)
(* Manifest walker (main.go:164-185) and the run.                          *)
(***************************************************************************)
\* One event of the history.  `what` is the operation of a "dispatch", the
\* error of a "result" and the program with its arguments, as exec.Command
\* gets them (main.go:294), of a "spawn".
Event(ev, a, c, what) == [ev |-> ev, a |-> a, c |-> c, what |-> what]

\* The action and the content entry the walker is at.
CurAction == config.Actions[i + 1]

CurContent == CurAction.Content[j + 1]

\* A loop that steps over every other entry.
NextContentSkips(k) == k + 2

\* j++ of main.go:182 and i++ of main.go:174.
NextContent(k) == k + 1

NextAction(k) == k + 1

\* processConfig (main.go:170-172) up to the start of `rm -rf .git` in
\* removeGitDirectory (main.go:316-318).
ProcessConfig ==
    /\ pc = "processConfig"
    /\ \E started \in CanStart(<<"rm", "-rf", ".git">>) :
         IF started
         THEN /\ pc' = "rmgit"
              /\ out' = out \o <<text("Starting execution of actions", "FgYellow"),
                                 text("Removing existing .git folder", "FgGreen")>>
              /\ trace' = Append(trace, Event("spawn", -1, -1,
                                               <<"rm", "-rf", ".git">>))
         ELSE /\ pc' = "exited"
              /\ out' = out \o <<text("Starting execution of actions", "FgYellow"),
                                 text("Removing existing .git folder", "FgGreen"),
                                 text("", "FgRed")>>
              /\ trace' = Append(trace, Event("result", -1, -1, StartErr(<<"rm">>)))
    /\ UNCHANGED <<opts, clone, config, fs, i, j, call>>

\* An executeCommand that prints the error of `rm -rf .git` and returns.
RemoveGitReturnGoesOn ==
    /\ pc = "rmgit"
    /\ \E code \in ExitCodes :
         /\ fs' = IF code = 0 THEN [fs EXCEPT ![".git"] = NoFile] ELSE fs
         /\ out' = Append(out, IF code = 0
                               THEN text("\t-> " \o colored("rm -rf .git", "FgRed"),
                                         "FgGreen")
                               ELSE text(Stderr(<<"rm">>, code), "FgRed"))
         /\ trace' = trace \o <<Event("reap", -1, -1, "rm -rf .git"),
                                Event("result", -1, -1, RunErr(code))>>
         /\ pc' = "actions"
         /\ i' = 0
    /\ UNCHANGED <<opts, clone, config, j, call>>

\* `rm -rf .git` ends (main.go:302-305) and removeGitDirectory goes on
\* (main.go:320-322); the loop of processConfig starts.
RemoveGitReturn ==
    /\ pc = "rmgit"
    /\ \E code \in ExitCodes :
         IF code = 0
         THEN /\ fs' = [fs EXCEPT ![".git"] = NoFile]
              /\ out' = Append(out, text("\t-> " \o colored("rm -rf .git", "FgRed"),
                                         "FgGreen"))
              /\ trace' = trace \o <<Event("reap", -1, -1, "rm -rf .git"),
                                     Event("result", -1, -1, RunErr(code))>>
              /\ pc' = "actions"
              /\ i' = 0
         ELSE /\ out' = Append(out, text(Stderr(<<"rm">>, code), "FgRed"))
              /\ trace' = trace \o <<Event("reap", -1, -1, "rm -rf .git"),
                                     Event("result", -1, -1, RunErr(code))>>
              /\ pc' = "exited"
              /\ UNCHANGED <<fs, i>>
    /\ UNCHANGED <<opts, clone, config, j, call>>

\* processAction (main.go:179-182) is entered for action i.
ProcessAction ==
    /\ pc = "actions"
    /\ i < Len(config.Actions)
    /\ out' = Append(out, text(CurAction.Name, "FgGreen"))
    /\ j' = 0
    /\ pc' = "content"
    /\ UNCHANGED <<opts, clone, config, fs, i, trace, call>>

\* processContent (main.go:192-285) for content entry j of action i.
ProcessContent ==
    /\ pc = "content"
    /\ j < Len(CurAction.Content)
    /\ LET r == processContent(fs, CurAction, CurContent)
           dispatched == Append(trace, Event("dispatch", i, j, r.op))
       IN  /\ fs' = r.fs
           /\ IF r.next = "exec"
              THEN \E started \in CanStart(executableCommand(CurContent.Command)) :
                     IF started
                     THEN /\ pc' = "exec"
                          /\ out' = out \o r.out
                          /\ trace' = Append(dispatched,
                                             Event("spawn", i, j,
                                                   executableCommand(
                                                       CurContent.Command)))
                          /\ j' = j
                     ELSE /\ pc' = "exited"
                          /\ out' = out \o r.out \o <<text("", "FgRed")>>
                          /\ trace' = Append(dispatched,
                                             Event("result", i, j,
                                                   StartErr(executableCommand(
                                                       CurContent.Command))))
                          /\ j' = j
              ELSE /\ out' = out \o r.out
                   /\ pc' = CASE r.next = "return" -> "content"
                              [] r.next = "exit" -> "exited"
                              [] OTHER -> "panic"
                   /\ j' = IF r.next = "return" THEN NextContent(j) ELSE j
                   /\ trace' = Append(dispatched, Event("result", i, j, r.err))
    /\ UNCHANGED <<opts, clone, config, i, call>>

\* The child of an exec entry ends and cmd.Run returns (main.go:302-305).
ExecReturn ==
    /\ pc = "exec"
    /\ \E code \in ExitCodes :
         IF code = 0
         THEN /\ pc' = "content"
              /\ j' = NextContent(j)
              /\ out' = out
              /\ trace' = trace \o <<Event("reap", i, j, CurContent.Command),
                                     Event("result", i, j, RunErr(code))>>
         ELSE /\ pc' = "exited"
              /\ j' = j
              /\ out' = Append(out, text(Stderr(executableCommand(CurContent.Command),
                                                code), "FgRed"))
              /\ trace' = trace \o <<Event("reap", i, j, CurContent.Command),
                                     Event("result", i, j, RunErr(code))>>
    /\ UNCHANGED <<opts, clone, config, fs, i, call>>

\* processAction returns: its loop ran out of content entries.
ActionReturn ==
    /\ pc = "content"
    /\ j >= Len(CurAction.Content)
    /\ i' = NextAction(i)
    /\ pc' = "actions"
    /\ UNCHANGED <<opts, clone, config, fs, j, out, trace, call>>

\* A scan that also runs when the run has ended on a failure.
ProcessWarningsAtExit ==
    /\ \/ pc = "actions" /\ i >= Len(config.Actions)
       \/ pc = "exited"
    /\ out' = out \o processWarnings(fs)
    /\ trace' = Append(trace, Event("warnings", -1, -1, ""))
    /\ pc' = "done"
    /\ UNCHANGED <<opts, clone, config, fs, i, j, call>>

\* processConfig returns and processWarnings runs (main.go:160-161).
ProcessWarnings ==
    /\ pc = "actions"
    /\ i >= Len(config.Actions)
    /\ out' = out \o processWarnings(fs)
    /\ trace' = Append(trace, Event("warnings", -1, -1, ""))
    /\ pc' = "done"
    /\ UNCHANGED <<opts, clone, config, fs, i, j, call>>

Next ==
    \/ ProcessConfig
    \/ RemoveGitReturn
    \/ ProcessAction
    \/ ProcessContent
    \/ ExecReturn
    \/ ActionReturn
    \/ ProcessWarnings

(***************************************************************************)
(* The manifests and trees the runs start from.                            *)
(***************************************************************************)
\* The cloned repository before the run: the manifest, the staging directory
\* with one template, .git, and a.txt as given.
ClonedTree(a) ==
    [p \in Paths |->
        CASE p = ".git" -> Directory("rw")
          [] p = ".cappuccino" -> Directory("rw")
          [] p = ".cappuccino/a.txt" -> File("T [cappuccino-var-X]\n", "rw")
          [] p = ".cappuccino.yml" -> File("engine: cappuccino\n", "rw")
          [] p = "a.txt" -> a
          [] p = "b" -> Directory("rw")
          [] p = "b/c.txt" -> File("X\n[cappuccino-warning] X\n", "rw")
          [] OTHER -> NoFile]

\* Every sequence of exactly na actions over the given action types and
\* content entries that holds at most ne content entries in all.
RECURSIVE ActionLists(_, _, _, _)
ActionLists(na, ne, types, entries) ==
    IF na = 0 THEN {<<>>}
    ELSE UNION { { <<[Name |-> "Setup", Type |-> t, Content |-> c]>> \o rest :
                       t \in types,
                       c \in [1..n -> entries],
                       rest \in ActionLists(na - 1, ne - n, types, entries) } :
                 n \in 0..ne }

Manifests(types, entries) ==
    UNION { ActionLists(na, MaxEntries, types, entries) : na \in 0..MaxActions }

ConfigOf(actions) ==
    [Engine |-> "cappuccino", Version |-> "1", Actions |-> actions]

NoCall == [fn |-> "none"]

\* The walker's manifests: entries that name their type and entries that
\* leave it to their action, recognised types and others.
WalkTypes == {"", "delete"}

WalkEntries ==
    { [ZeroContent EXCEPT !.Command = "make all", !.Path = "a.txt"],
      [ZeroContent EXCEPT !.Type = "exec", !.Command = "make all", !.Path = "a.txt"],
      [ZeroContent EXCEPT !.Type = "frobnicate", !.Command = "make all",
                          !.Path = "a.txt"] }

WalkTrees == { ClonedTree(File("X\n", "rw")), ClonedTree(NoFile) }

Init ==
    /\ config \in { ConfigOf(m) : m \in Manifests(WalkTypes, WalkEntries) }
    /\ fs \in WalkTrees
    /\ opts = DefaultOpts
    /\ clone = fs
    /\ pc = "processConfig"
    /\ i = 0
    /\ j = 0
    /\ out = <<>>
    /\ trace = <<>>
    /\ call = NoCall

Spec == Init /\ [][Next]_vars

(***************************************************************************)
(* The runs that end early: every recognised kind of entry, named by the   *)
(* entry itself, and a replacement of two lines with a negative indent,    *)
(* over a tree where each succeeds and a tree where the file operations    *)
(* fail.                                                                   *)
(***************************************************************************)
AbortTypes == {""}

AbortEntries ==
    { [ZeroContent EXCEPT !.Type = "exec", !.Command = "make all"],
      [ZeroContent EXCEPT !.Type = "copy", !.Source = "a.txt",
                          !.Destination = "d.txt"],
      [ZeroContent EXCEPT !.Type = "template", !.Path = "a.txt"],
      [ZeroContent EXCEPT !.Type = "move", !.Source = "a.txt",
                          !.Destination = "b/c.txt"],
      [ZeroContent EXCEPT !.Type = "delete", !.Path = "a.txt"],
      [ZeroContent EXCEPT !.Type = "replace", !.Path = "a.txt", !.Text = "X",
                          !.Value = "Y"],
      [ZeroContent EXCEPT !.Type = "substitute", !.Variable = "X",
                          !.Value = "Y"],
      [ZeroContent EXCEPT !.Type = "replace", !.Path = "b/c.txt", !.Text = "X",
                          !.Value = "Y\nZ", !.Indent = -1] }

AbortTrees ==
    { ClonedTree(File("X\n", "rw")),
      [ClonedTree(NoFile) EXCEPT ![".cappuccino/a.txt"].mode = ""] }

InitAbort ==
    /\ config \in { ConfigOf(m) : m \in Manifests(AbortTypes, AbortEntries) }
    /\ fs \in AbortTrees
    /\ opts = DefaultOpts
    /\ clone = fs
    /\ pc = "processConfig"
    /\ i = 0
    /\ j = 0
    /\ out = <<>>
    /\ trace = <<>>
    /\ call = NoCall

SpecAbort == InitAbort /\ [][Next]_vars

(***************************************************************************)
(* Reading the history of a run.                                           *)
(***************************************************************************)
\* The content entries of a manifest, as <<action, entry>> index pairs
\* (0-based, as i and j), in the order the manifest declares them.
RECURSIVE FlatFrom(_, _)
FlatFrom(actions, a) ==
    IF a >= Len(actions) THEN <<>>
    ELSE [c \in 1..Len(actions[a + 1].Content) |-> <<a, c - 1>>]
             \o FlatFrom(actions, a + 1)

FlatOrder == FlatFrom(config.Actions, 0)

\* The positions of the history at which a content entry was dispatched.
DispatchAt == { p \in 1..Len(trace) : trace[p].ev = "dispatch" }

\* The entries dispatched so far, in the order of their dispatch.
Dispatched ==
    LET d == SelectSeq(trace, LAMBDA e : e.ev = "dispatch")
    IN  [k \in 1..Len(d) |-> <<d[k].a, d[k].c>>]

EntryAt(a, c) == config.Actions[a + 1].Content[c + 1]

\* The operation of a content entry returned an error (or never returned).
FailedAt(p) == trace[p].ev = "result" /\ trace[p].a >= 0 /\ trace[p].what # Nil

Recognised == {"exec", "copy", "template", "move", "delete", "replace", "substitute"}

(***************************************************************************)
(* C1: content entries are dispatched in exactly manifest order - at       *)
(* every moment the entries dispatched so far are the first entries of the *)
(* manifest, each once; a run that ends without an abort has dispatched    *)
(* them all; and an entry is dispatched only when the operation of the     *)
(* entry before it has returned, a child process only after it was reaped. *)
(***************************************************************************)
C1_ManifestOrder ==
    /\ Len(Dispatched) <= Len(FlatOrder)
    /\ Dispatched = SubSeq(FlatOrder, 1, Len(Dispatched))
    /\ pc = "done" => Dispatched = FlatOrder
    /\ \A p \in DispatchAt :
         /\ trace[p - 1].ev = "result"
         /\ trace[p - 1].what = Nil
    /\ \A p \in 1..Len(trace) :
         trace[p].ev = "spawn" /\ p < Len(trace) => trace[p + 1].ev = "reap"
    /\ pc \in {"exec", "rmgit"} <=> (trace # <<>> /\ trace[Len(trace)].ev = "spawn")

C1_Witness ==
    /\ pc = "done"
    /\ Len(config.Actions) = 2
    /\ Len(Dispatched) = 3
    /\ Len(config.Actions[1].Content) = 2
    /\ \E p \in 1..Len(trace) : trace[p].ev = "spawn" /\ trace[p].a = 0 /\ trace[p].c = 0

(***************************************************************************)
(* C2: when the operation of the k-th entry fails, the run ends there -    *)
(* the failure is the last thing that happens, the process has exited, the *)
(* entries dispatched are exactly the first k of the manifest and those    *)
(* before k all returned without error; the failing step undoes nothing:   *)
(* it leaves every object the failing entry does not itself write as it    *)
(* was, and nothing changes once the process has exited.                   *)
(***************************************************************************)
\* The paths the operation of an entry may write.
WrittenBy(e) ==
    CASE e.Type \in {"copy", "move"} -> {e.Destination}
      [] e.Type = "template" -> {e.Path}
      [] e.Type \in {"replace", "substitute"} ->
           IF e.Path # "" THEN {e.Path} ELSE { p \in Paths : IsRegular(fs, p) }
      [] OTHER -> {}

C2_Stopped ==
    \A p \in 1..Len(trace) :
        FailedAt(p) =>
            /\ p = Len(trace)
            /\ pc \in {"exited", "panic"}
            /\ Len(Dispatched) <= Len(FlatOrder)
            /\ Dispatched = SubSeq(FlatOrder, 1, Len(Dispatched))
            /\ <<trace[p].a, trace[p].c>> = Dispatched[Len(Dispatched)]
            /\ \A q \in DispatchAt :
                 <<trace[q].a, trace[q].c>> # <<trace[p].a, trace[p].c>> =>
                     \E r \in (q + 1)..(p - 1) :
                         /\ trace[r].ev = "result"
                         /\ trace[r].a = trace[q].a
                         /\ trace[r].c = trace[q].c
                         /\ trace[r].what = Nil

C2_NoRollback ==
    /\ pc \in {"content", "exec"} /\ pc' \in {"exited", "panic"} =>
         \A p \in Paths \ WrittenBy(CurContent) : fs'[p] = fs[p]
    /\ pc \in {"exited", "panic"} => UNCHANGED vars

C2_FirstFailureEndsRun == [](C2_Stopped) /\ [][C2_NoRollback]_vars

C2_Witness ==
    /\ pc = "exited"
    /\ Len(FlatOrder) = 3
    /\ Len(Dispatched) = 2
    /\ FailedAt(Len(trace))
    /\ trace[Len(trace)].what = "remove a.txt: no such file or directory"
    /\ EntryAt(0, 0).Type = "move"
    /\ fs["b/c.txt"].data = "X\n"
    /\ fs["a.txt"] = NoFile

(***************************************************************************)
(* C3: a content entry whose effective type is not one of the seven        *)
(* recognised kinds (an empty one included) changes no file, prints        *)
(* nothing, starts no process, and the walker goes on with the next entry. *)
(***************************************************************************)
C3_UnrecognisedTypeIsNoOp ==
    [][ ( /\ pc = "content"
          /\ j < Len(CurAction.Content)
          /\ (IF CurContent.Type = "" THEN CurAction.Type ELSE CurContent.Type)
                 \notin Recognised )
        => /\ fs' = fs
           /\ out' = out
           /\ pc' = "content"
           /\ i' = i
           /\ j' = j + 1
           /\ \A p \in (Len(trace) + 1)..Len(trace') : trace'[p].ev # "spawn"
           /\ trace'[Len(trace')] = Event("result", i, j, Nil) ]_vars

C3_Witness ==
    /\ pc = "done"
    /\ \E p \in DispatchAt :
         /\ EntryAt(trace[p].a, trace[p].c).Type = ""
         /\ config.Actions[trace[p].a + 1].Type = ""
         /\ p + 2 \in DispatchAt
    /\ \E p \in DispatchAt : EntryAt(trace[p].a, trace[p].c).Type = "frobnicate"

(***************************************************************************)
(* C4: the operation called for a content entry is the one of its          *)
(* effective type - the entry's own type when it has one, else the type of *)
(* the action that holds it.                                               *)
(***************************************************************************)
OperationOfType(t) ==
    CASE t = "exec" -> "executeCommand"
      [] t \in {"copy", "template"} -> "copyFile"
      [] t = "move" -> "moveFile"
      [] t = "delete" -> "deleteFile"
      [] t \in {"replace", "substitute"} -> "substituteFile"
      [] OTHER -> "none"

EffectiveType(a, c) ==
    IF EntryAt(a, c).Type # "" THEN EntryAt(a, c).Type
    ELSE config.Actions[a + 1].Type

C4_EffectiveTypeDecides ==
    \A p \in DispatchAt :
        trace[p].what = OperationOfType(EffectiveType(trace[p].a, trace[p].c))

C4_Witness ==
    /\ Len(config.Actions) = 2
    /\ config.Actions[1].Type = "delete"
    /\ config.Actions[2].Type = ""
    /\ \E p, q \in DispatchAt :
         /\ trace[p].a = 0 /\ EntryAt(0, trace[p].c).Type = "exec"
         /\ trace[p].what = "executeCommand"
         /\ trace[q].a = 0 /\ EntryAt(0, trace[q].c).Type = ""
         /\ trace[q].what = "deleteFile"
    /\ \E p \in DispatchAt :
         /\ trace[p].a = 1 /\ EntryAt(1, trace[p].c).Type = ""
         /\ trace[p].what = "none"

(***************************************************************************)
(* One content entry of every shape, dispatched by itself.                 *)
(***************************************************************************)
DispatchTypes == {"", "replace", "substitute"}

\* Command strings as a manifest may hold them: one space, two spaces, a tab,
\* a space in front or behind, one word, nothing.
Commands ==
    {"make all", "make  all", "make\tall", " make all", "make all ", "make", ""}

DispatchEntries ==
    { [ZeroContent EXCEPT !.Type = t, !.Command = "make all", !.Source = "a.txt",
                          !.Destination = "d.txt", !.Variable = v, !.Text = x,
                          !.Path = p, !.Value = w, !.Indent = n] :
          t \in Recognised \cup {"", "frobnicate"},
          v \in {"X", "v"},
          x \in {"", "X", "[cappuccino-var-X]"},
          p \in {"", "a.txt"},
          w \in {"Y", " Y\nZ\n", ""},
          n \in 0..MaxIndent }
      \cup { [ZeroContent EXCEPT !.Type = "exec", !.Command = c] : c \in Commands }

DispatchTrees ==
    { ClonedTree(File("X [cappuccino-var-X]\n  [cappuccino-var-v] X\n", "rw")),
      [ClonedTree(File("[cappuccino-var-X]", "rw")) EXCEPT !["b/c.txt"].mode = "r"] }

InitDispatch ==
    /\ config \in { ConfigOf(<<[Name |-> "Setup", Type |-> t, Content |-> <<e>>]>>) :
                        t \in DispatchTypes, e \in DispatchEntries }
    /\ fs \in DispatchTrees
    /\ opts = DefaultOpts
    /\ clone = fs
    /\ pc = "processConfig"
    /\ i = 0
    /\ j = 0
    /\ out = <<>>
    /\ trace = <<>>
    /\ call = NoCall

SpecDispatch == InitDispatch /\ [][Next]_vars

(***************************************************************************)
(* The functions of the engine called by themselves: one call on a tree,   *)
(* its arguments, the tree before it and what it returned kept in `call`.  *)
(***************************************************************************)
Called(fn, args, r, ret) ==
    [fn |-> fn, args |-> args, before |-> fs, err |-> r.err, panic |-> r.panic,
     ret |-> ret]

RECURSIVE StringsUpTo(_, _)
StringsUpTo(alphabet, n) ==
    IF n = 0 THEN {""}
    ELSE LET shorter == StringsUpTo(alphabet, n - 1)
         IN  shorter \cup { s \o c : s \in shorter, c \in alphabet }

EmptyTree == [p \in Paths |-> NoFile]

UnitInit(trees) ==
    /\ opts = ZeroOpts
    /\ clone = EmptyTree
    /\ config = ConfigOf(<<>>)
    /\ fs \in trees
    /\ pc = "unit"
    /\ i = 0
    /\ j = 0
    /\ out = <<>>
    /\ trace = <<>>
    /\ call = NoCall

\* Texts, markers, replacement values and indents of the calls.
Texts == StringsUpTo({"X", "a", "\n"}, MaxLen)

Markers == {"X", "XX", "aX", ""}

Values == StringsUpTo({"X", "a", "\n"}, MaxValueLen) \cup {"a\nb\nc"}

Indents == 0..MaxIndent \cup {4}

TextTrees ==
    { [EmptyTree EXCEPT !["a.txt"] = File(t, m)] : t \in Texts, m \in {"rw", "r"} }

CallSubstituteInFile ==
    /\ pc = "unit"
    /\ call = NoCall
    /\ \E variable \in Markers, value \in Values, indent \in Indents :
         LET r == substituteInFile(fs, "a.txt", variable, value, indent)
         IN  /\ fs' = r.fs
             /\ call' = Called("substituteInFile",
                               [path |-> "a.txt", variable |-> variable,
                                value |-> value, indent |-> indent], r, <<>>)
    /\ UNCHANGED <<opts, clone, config, pc, i, j, out, trace>>

CallIndentBlock ==
    /\ pc = "unit"
    /\ call = NoCall
    /\ \E value \in Values, indent \in Indents :
         call' = Called("indentBlock", [value |-> value, indent |-> indent],
                        [err |-> Nil, panic |-> indentPanics(value, indent)],
                        indentBlock(value, indent))
    /\ UNCHANGED <<opts, clone, config, fs, pc, i, j, out, trace>>

\* The same call of substituteInFile once more, on the tree the first left.
CallSubstituteInFileAgain ==
    /\ pc = "unit"
    /\ call.fn = "substituteInFile"
    /\ LET r == substituteInFile(fs, call.args.path, call.args.variable,
                                 call.args.value, call.args.indent)
       IN  /\ fs' = r.fs
           /\ call' = [fn |-> "substituteInFile twice", args |-> call.args,
                       before |-> call.before, once |-> fs, firstErr |-> call.err,
                       err |-> r.err, panic |-> r.panic]
    /\ UNCHANGED <<opts, clone, config, pc, i, j, out, trace>>

NextText == CallSubstituteInFile \/ CallSubstituteInFileAgain \/ CallIndentBlock

SpecText == UnitInit(TextTrees) /\ [][NextText]_vars

\* Trees for the file primitives: a.txt, d.txt and the directory b with
\* b/c.txt, each there or not, writable or not.
FileTrees ==
    { f \in { [EmptyTree EXCEPT !["a.txt"] = a, !["d.txt"] = d, !["b"] = b,
                                !["b/c.txt"] = c] :
                  a \in {NoFile, File("one", "rw"), File("one", "r"), File("", "rw")},
                  d \in {NoFile, File("two", "rw"), File("two", "r")},
                  b \in {NoFile, Directory("rw"), Directory("r")},
                  c \in {NoFile, File("three", "rw")} } :
          WellFormed(f) }

FileNames == {"a.txt", "d.txt", "b", "b/c.txt", "nodir/x.txt", ""}

CallCopyFile ==
    /\ pc = "unit"
    /\ call = NoCall
    /\ \E source \in FileNames, destination \in FileNames :
         LET r == NoPanic(copyFile(fs, source, destination))
         IN  /\ fs' = r.fs
             /\ call' = Called("copyFile", [source |-> source,
                                            destination |-> destination], r, <<>>)
    /\ UNCHANGED <<opts, clone, config, pc, i, j, out, trace>>

CallMoveFile ==
    /\ pc = "unit"
    /\ call = NoCall
    /\ \E source \in FileNames, destination \in FileNames :
         LET r == NoPanic(moveFile(fs, source, destination))
         IN  /\ fs' = r.fs
             /\ call' = Called("moveFile", [source |-> source,
                                            destination |-> destination], r, <<>>)
    /\ UNCHANGED <<opts, clone, config, pc, i, j, out, trace>>

CallDeleteFile ==
    /\ pc = "unit"
    /\ call = NoCall
    /\ \E path \in FileNames :
         LET r == NoPanic(deleteFile(fs, path))
         IN  /\ fs' = r.fs
             /\ call' = Called("deleteFile", [path |-> path], r, <<>>)
    /\ UNCHANGED <<opts, clone, config, pc, i, j, out, trace>>

NextFiles == CallCopyFile \/ CallMoveFile \/ CallDeleteFile

SpecFiles == UnitInit(FileTrees) /\ [][NextFiles]_vars

\* Trees for the walks: files in the root, in the staging directory and one
\* and two directories down, each there or not.
Lines3And10 == "1\n2\n[cappuccino-warning]\n4\n5\n6\n7\n8\n9\nX [cappuccino-warning] X\n"

TreeTexts == {"aXbX\n", "[cappuccino-warning] X", Lines3And10}

TreeFiles == {NoFile} \cup { File(t, "rw") : t \in TreeTexts }

\* Every file there, holding the marker twice.
FullTree ==
    [p \in Paths |->
        CASE p \in {".cappuccino", "b", "b/e"} -> Directory("rw")
          [] p \in {".git", "d.txt"} -> NoFile
          [] OTHER -> File("aXbX\n", "rw")]

\* Every file there, holding the warning token on its first line.
WarningTree ==
    [p \in Paths |->
        IF IsRegular(FullTree, p) THEN File("[cappuccino-warning] X", "rw")
        ELSE FullTree[p]]

\* The trees above, the full tree with one file that cannot be written ("r")
\* or cannot be read ("w"), and the tree of warnings with one file that
\* cannot be read.
TreeTrees ==
    { [EmptyTree EXCEPT ![".cappuccino"] = Directory("rw"),
                        !["b"] = Directory("rw"),
                        !["b/e"] = Directory("rw"),
                        ![".cappuccino/a.txt"] = s,
                        ![".cappuccino.yml"] = y,
                        !["a.txt"] = a,
                        !["b/c.txt"] = c,
                        !["b/e/f.txt"] = d] :
          s \in TreeFiles, y \in TreeFiles, a \in TreeFiles, c \in TreeFiles,
          d \in TreeFiles }
    \cup { [FullTree EXCEPT ![p].mode = m] :
               p \in {".cappuccino/a.txt", ".cappuccino.yml", "a.txt", "b/c.txt",
                      "b/e/f.txt"},
               m \in {"r", "w"} }
    \cup { [WarningTree EXCEPT ![p].mode = "w"] :
               p \in {".cappuccino/a.txt", ".cappuccino.yml", "a.txt", "b/c.txt",
                      "b/e/f.txt"} }

CallSubstituteFile ==
    /\ pc = "unit"
    /\ call = NoCall
    /\ \E path \in {"", "b/c.txt"}, variable \in {"X", WarningToken},
          value \in {"Y", "X\nY"}, indent \in {0, MaxIndent} :
         LET r == substituteFile(fs, path, variable, value, indent)
         IN  /\ fs' = r.fs
             /\ call' = Called("substituteFile",
                               [path |-> path, variable |-> variable,
                                value |-> value, indent |-> indent], r, <<>>)
    /\ UNCHANGED <<opts, clone, config, pc, i, j, out, trace>>

CallProcessWarnings ==
    /\ pc = "unit"
    /\ call = NoCall
    /\ out' = processWarnings(fs)
    /\ call' = Called("processWarnings", <<>>, [err |-> Nil, panic |-> FALSE], <<>>)
    /\ UNCHANGED <<opts, clone, config, fs, pc, i, j, trace>>

NextTree == CallSubstituteFile \/ CallProcessWarnings

SpecTree == UnitInit(TreeTrees) /\ [][NextTree]_vars

(***************************************************************************)
(* What a substitution is expected to write.                               *)
(***************************************************************************)
\* s read from left to right: where the non-empty marker m starts, the block
\* b is written and reading goes on behind the marker; every other character
\* is copied.
RECURSIVE ScanReplace(_, _, _)
ScanReplace(s, m, b) ==
    IF s = "" THEN ""
    ELSE IF HasPrefix(s, m) THEN b \o ScanReplace(SliceFrom(s, Len(m)), m, b)
    ELSE Slice(s, 0, 1) \o ScanReplace(SliceFrom(s, 1), m, b)

\* The value with `indent` spaces behind each of its newlines.
ExpectedBlock(value, indent) ==
    ScanReplace(value, "\n", "\n" \o Repeat(" ", indent))

(***************************************************************************)
(* C5: substituteInFile on a file that can be read and written, with a     *)
(* non-empty marker, returns no error and writes the content back with     *)
(* every occurrence of the marker, found from left to right without        *)
(* overlap, replaced by the indented value; all else is copied, the text   *)
(* written is not searched again, and no other object of the tree changes. *)
(***************************************************************************)
C5_ReplacesEveryOccurrence ==
    ( /\ call.fn = "substituteInFile"
      /\ call.args.variable # ""
      /\ call.before[call.args.path].mode = "rw" )
    => /\ call.err = Nil
       /\ ~call.panic
       /\ fs = [call.before EXCEPT ![call.args.path].data =
                    ScanReplace(call.before[call.args.path].data,
                                call.args.variable,
                                ExpectedBlock(call.args.value, call.args.indent))]

C5_Witness ==
    /\ call.fn = "substituteInFile"
    /\ call.before["a.txt"] = File("XaX", "rw")
    /\ call.args = [path |-> "a.txt", variable |-> "X", value |-> "\nX", indent |-> 2]
    /\ fs["a.txt"].data = "\n  Xa\n  X"

(***************************************************************************)
(* C6: indentBlock returns the lines of the value - one more than it has   *)
(* newlines - the first as it is and every other one behind exactly        *)
(* `indent` spaces; with indent 0 or a value of one line the lines joined  *)
(* by newlines are the value, and "a\nb\nc" with indent 4 gives            *)
(* "a\n    b\n    c".                                                      *)
(***************************************************************************)
Newlines(s) == Cardinality({ k \in 1..Len(s) : SubSeq(s, k, k) = "\n" })

C6_IndentsAllButFirstLine ==
    call.fn = "indentBlock" =>
        LET value == call.args.value
            indent == call.args.indent
            lines == call.ret
            bare == [k \in 1..Len(lines) |->
                        IF k = 1 THEN lines[k] ELSE SliceFrom(lines[k], indent)]
        IN  /\ ~call.panic
            /\ Len(lines) = Newlines(value) + 1
            /\ \A k \in 1..Len(lines) : Newlines(lines[k]) = 0
            /\ HasPrefix(value, lines[1])
            /\ \A k \in 2..Len(lines) : HasPrefix(lines[k], Repeat(" ", indent))
            /\ Join(bare, "\n") = value
            /\ Join(lines, "\n") = ExpectedBlock(value, indent)
            /\ (indent = 0 \/ Newlines(value) = 0) => Join(lines, "\n") = value
            /\ (value = "a\nb\nc" /\ indent = 4)
                   => Join(lines, "\n") = "a\n    b\n    c"

C6_Witness ==
    /\ call.fn = "indentBlock"
    /\ call.args = [value |-> "a\nb\nc", indent |-> 4]
    /\ call.ret = <<"a", "    b", "    c">>

(***************************************************************************)
(* C7: moveFile of a source that exists to a destination that does not,    *)
(* when it returns no error, leaves the destination a file with the        *)
(* content the source had, the source gone and every other object as it    *)
(* was.                                                                    *)
(***************************************************************************)
C7_MoveFile ==
    ( /\ call.fn = "moveFile"
      /\ Exists(call.before, call.args.source)
      /\ ~Exists(call.before, call.args.destination)
      /\ call.err = Nil )
    => /\ IsRegular(fs, call.args.destination)
       /\ Stat(fs, call.args.destination).data
              = Stat(call.before, call.args.source).data
       /\ ~Exists(fs, call.args.source)
       /\ \A p \in Paths \ {call.args.source, call.args.destination} :
              fs[p] = call.before[p]

C7_Witness ==
    /\ call.fn = "moveFile"
    /\ call.args = [source |-> "a.txt", destination |-> "b/c.txt"]
    /\ call.before["a.txt"] = File("one", "r")
    /\ call.before["b/c.txt"] = NoFile
    /\ call.before["d.txt"] = File("two", "rw")
    /\ call.err = Nil
    /\ fs["b/c.txt"].data = "one"
    /\ fs["a.txt"] = NoFile

(***************************************************************************)
(* C8: a substitution with an empty path that returns no error has         *)
(* replaced the marker in every regular file of the tree, whatever the     *)
(* directory it is in, and left everything else alone.                     *)
(***************************************************************************)
C8_WholeTree ==
    ( /\ call.fn = "substituteFile"
      /\ call.args.path = ""
      /\ call.err = Nil
      /\ ~call.panic )
    => \A p \in Paths :
          fs[p] = IF IsRegular(call.before, p)
                  THEN [call.before[p] EXCEPT !.data =
                           ScanReplace(call.before[p].data, call.args.variable,
                                       ExpectedBlock(call.args.value,
                                                     call.args.indent))]
                  ELSE call.before[p]

C8_Witness ==
    /\ call.fn = "substituteFile"
    /\ call.args = [path |-> "", variable |-> "X", value |-> "Y", indent |-> 0]
    /\ call.err = Nil
    /\ \A p \in {".cappuccino/a.txt", ".cappuccino.yml", "a.txt", "b/c.txt",
                 "b/e/f.txt"} :
          call.before[p].data = "aXbX\n" /\ fs[p].data = "aYbY\n"

(***************************************************************************)
(* C9: the warning scan reports, for every regular file that is not inside *)
(* the staging directory .cappuccino/, each line that holds the token once *)
(* - its 1-based number and the path of the file - and nothing else.       *)
(***************************************************************************)
InStaging(p) == HasPrefix(p, ".cappuccino/")

\* The numbers of the lines of a text that hold the token.
TokenLines(data) ==
    { n \in 1..Len(Split(data, "\n")) : Contains(Split(data, "\n")[n], WarningToken) }

ExpectedReports(f) ==
    UNION { { warningText(n, p) : n \in TokenLines(f[p].data) } :
            p \in { q \in Paths : IsRegular(f, q) /\ CanRead(f, q) /\ ~InStaging(q) } }

C9_ReportsEveryFileOutsideStaging ==
    call.fn = "processWarnings" =>
        LET reports == SubSeq(out, 2, Len(out))
        IN  /\ { reports[k] : k \in 1..Len(reports) } = ExpectedReports(call.before)
            /\ Len(reports) = Cardinality(ExpectedReports(call.before))

(***************************************************************************)
(* C10: a substitute entry searches for "[cappuccino-var-" + Variable +    *)
(* "]", a replace entry for its search string as it is; but for the marker *)
(* the two do the same: a substitute entry does, prints and returns what   *)
(* the replace entry with the framed marker as search string does, which   *)
(* is substituteFile with the entry's path, trimmed value and indent.      *)
(***************************************************************************)
C10_Marker(t, e) ==
    IF t = "substitute" THEN "[cappuccino-var-" \o e.Variable \o "]" ELSE e.Text

C10_StepOf(t, e) ==
    LET want == substituteFile(fs, e.Path, C10_Marker(t, e), TrimSpace(e.Value),
                               e.Indent)
        twin == processContent(fs, CurAction,
                               [e EXCEPT !.Type = "replace",
                                         !.Text = C10_Marker(t, e)])
    IN  /\ fs' = want.fs
        /\ (pc' = "exited") = (want.err # Nil)
        /\ (pc' = "content") = (want.err = Nil)
        /\ trace'[Len(trace')] = Event("result", i, j, want.err)
        /\ fs' = twin.fs
        /\ out' = out \o twin.out
        /\ twin.err = want.err

C10_SubstituteFramesReplaceDoesNot ==
    [][ ( /\ pc = "content"
          /\ j < Len(CurAction.Content)
          /\ (IF CurContent.Type = "" THEN CurAction.Type ELSE CurContent.Type)
                 \in {"replace", "substitute"} )
        => C10_StepOf(IF CurContent.Type = "" THEN CurAction.Type
                      ELSE CurContent.Type, CurContent) ]_vars

C10_Witness ==
    /\ pc = "done"
    /\ config.Actions[1].Type = "substitute"
    /\ EntryAt(0, 0).Type = ""
    /\ EntryAt(0, 0).Variable = "X"
    /\ EntryAt(0, 0).Path = "a.txt"
    /\ EntryAt(0, 0).Value = " Y\nZ\n"
    /\ EntryAt(0, 0).Indent = 2
    /\ fs["a.txt"].data = "X Y\n  Z\n  [cappuccino-var-v] X\n"

(***************************************************************************)
(* C11: a replace entry written with the documented fields - variable,     *)
(* value, path, indent, and no `text` - on a file that can be read and     *)
(* written replaces every occurrence of its variable by its value (trimmed *)
(* and indented) in that file.                                             *)
(***************************************************************************)
C11_ReplaceFindsVariable ==
    [][ ( /\ pc = "content"
          /\ j < Len(CurAction.Content)
          /\ (IF CurContent.Type = "" THEN CurAction.Type ELSE CurContent.Type)
                 = "replace"
          /\ CurContent.Text = ""
          /\ CurContent.Path # ""
          /\ Stat(fs, CurContent.Path).mode = "rw" )
        => fs' = [fs EXCEPT ![CurContent.Path].data =
                      ScanReplace(fs[CurContent.Path].data, CurContent.Variable,
                                  ExpectedBlock(TrimSpace(CurContent.Value),
                                                CurContent.Indent))] ]_vars

(***************************************************************************)
(* C12: the child process of an exec entry is started with the tokens of   *)
(* the command string - the maximal runs of characters that are not        *)
(* whitespace - the first as the program and the others as its arguments,  *)
(* so that no argument is empty or holds whitespace.                       *)
(***************************************************************************)
\* The offset of the first whitespace character of t, Len(t) when none.
FirstSpace(t) ==
    LET hits == { k \in 0..(Len(t) - 1) : Slice(t, k, k + 1) \in WhiteSpace }
    IN  IF hits = {} THEN Len(t) ELSE CHOOSE k \in hits : \A m \in hits : k <= m

\* The tokens of s: any run of whitespace separates two of them.
RECURSIVE Tokens(_)
Tokens(s) ==
    LET t == TrimLeft(s)
    IN  IF t = "" THEN <<>>
        ELSE <<Slice(t, 0, FirstSpace(t))>> \o Tokens(SliceFrom(t, FirstSpace(t)))

C12_SplitsOnWhitespace ==
    \A p \in 1..Len(trace) :
        (trace[p].ev = "spawn" /\ trace[p].a >= 0) =>
            LET argv == trace[p].what
            IN  /\ argv = Tokens(EntryAt(trace[p].a, trace[p].c).Command)
                /\ \A k \in 1..Len(argv) :
                     argv[k] # "" /\ FirstSpace(argv[k]) = Len(argv[k])

(***************************************************************************)
(* C13: a run that does not complete every entry ends through os.Exit(0)   *)
(* behind a printed error line: it never crashes, and it has exited only   *)
(* behind the failure of `rm -rf .git` or of the last entry dispatched,    *)
(* the error of a file operation being the last line printed.              *)
(***************************************************************************)
C13_EveryFailureExitsZero ==
    /\ pc # "panic"
    /\ pc = "exited" =>
         /\ trace[Len(trace)].ev = "result"
         /\ trace[Len(trace)].what # Nil
         /\ Len(out) > 0
         /\ (Len(trace) > 1
                 /\ trace[Len(trace) - 1].ev = "dispatch"
                 /\ trace[Len(trace) - 1].what # "executeCommand")
              => out[Len(out)] = text(trace[Len(trace)].what, "FgRed")

(***************************************************************************)
(* The start of the run (main.go:80-162): the url check, the clone and the *)
(* manifest.                                                               *)
(***************************************************************************)
VERSION == "0.1.2"

CharsOf(s) == { Slice(s, k, k + 1) : k \in 0..(Len(s) - 1) }

AllIn(s, chars) == \A k \in 0..(Len(s) - 1) : Slice(s, k, k + 1) \in chars

\* \w of Go's regexp.
WordChars ==
    CharsOf("abcdefghijklmnopqrstuvwxyzABCDEFGHIJKLMNOPQRSTUVWXYZ0123456789_")

\* [\w\.@\:/\-~] of main.go:111.
UrlChars == WordChars \cup {".", "@", ":", "/", "-", "~"}

\* The offsets of href at which a match of ((git|ssh|http(s)?)|(git@[\w\.]+))
\* may end, wherever it starts: the expression is not anchored.
SchemeEnds(href) ==
    { x[1] + Len(x[2]) :
          x \in { y \in (0..Len(href)) \X {"git", "ssh", "http", "https"} :
                      HasPrefix(SliceFrom(href, y[1]), y[2]) } }
    \cup { e \in 0..Len(href) :
               \E s \in 0..e : /\ HasPrefix(SliceFrom(href, s), "git@")
                               /\ e > s + 4
                               /\ AllIn(Slice(href, s + 4, e), WordChars \cup {"."}) }

\* ... followed by (:(//)?).
AfterColon(href) ==
    { e + 1 : e \in { k \in SchemeEnds(href) : HasPrefix(SliceFrom(href, k), ":") } }
    \cup { e + 3 : e \in { k \in SchemeEnds(href) :
                               HasPrefix(SliceFrom(href, k), "://") } }

\* regexp.MatchString of main.go:111-113: ... followed by ([\w\.@\:/\-~]+)
\* and (\.git); the optional (/) at the end decides nothing.
MatchString(href) ==
    \E b \in AfterColon(href), m \in 0..Len(href) :
        /\ m > b
        /\ AllIn(Slice(href, b, m), UrlChars)
        /\ HasPrefix(SliceFrom(href, m), ".git")

\* The offsets at which the (.*) of "/(.*).git" may end when the "/" is at s.
RepoNameEnds(href, s) ==
    { m \in (s + 1)..(Len(href) - 4) :
          /\ "\n" \notin CharsOf(Slice(href, s + 1, m + 1))
          /\ Slice(href, m + 1, m + 4) = "git" }

\* The offsets of a "/" at which "/(.*).git" matches.
RepoNameStarts(href) ==
    { s \in 0..(Len(href) - 1) :
          Slice(href, s, s + 1) = "/" /\ RepoNameEnds(href, s) # {} }

\* FindStringSubmatch returns nil when nothing matches and main.go:510
\* indexes it.
findRepoNamePanics(href) == RepoNameStarts(href) = {}

\* findRepoName (main.go:508-511): the leftmost match, its (.*) the longest.
findRepoName(href) ==
    LET s == CHOOSE k \in RepoNameStarts(href) :
                 \A m \in RepoNameStarts(href) : k <= m
        e == CHOOSE k \in RepoNameEnds(href, s) :
                 \A m \in RepoNameEnds(href, s) : m <= k
    IN  Slice(href, s + 1, e)

\* The directory `git clone href` makes: the last component of the url
\* without slashes behind it and without ".git".
CloneDir(href) ==
    LET t == StripSlashes(href)
        u == IF Len(t) >= 4 /\ SliceFrom(t, Len(t) - 4) = ".git"
             THEN Slice(t, 0, Len(t) - 4) ELSE t
        seps == { k \in 0..(Len(u) - 1) : Slice(u, k, k + 1) \in {"/", ":"} }
    IN  IF seps = {} THEN u
        ELSE SliceFrom(u, 1 + CHOOSE k \in seps : \A m \in seps : m <= k)

\* Config{} (main.go:144).
ZeroConfig == [Engine |-> "", Version |-> "", Actions |-> <<>>]

\* Manifests and what yaml.Unmarshal (gopkg.in/yaml.v2) makes of them.
ManifestEngine == "engine: cappuccino\n"

ManifestSetup ==
    "actions:\n  - name: Setup\n    type: delete\n    content:\n"
        \o "      - type: exec\n        command: make all\n"
        \o "      - path: a.txt\n"

ManifestBroken == "actions: [\n"

Unmarshal(data) ==
    CASE data = ManifestEngine ->
           [err |-> Nil, config |-> [ZeroConfig EXCEPT !.Engine = "cappuccino"]]
      [] data = ManifestSetup ->
           [err |-> Nil,
            config |-> [ZeroConfig EXCEPT !.Actions =
                <<[Name |-> "Setup", Type |-> "delete",
                   Content |-> <<[ZeroContent EXCEPT !.Type = "exec",
                                                     !.Command = "make all"],
                                 [ZeroContent EXCEPT !.Path = "a.txt"]>>]>>]]
      [] OTHER ->
           [err |-> "yaml: line 1: did not find expected node content",
            config |-> ZeroConfig]

\* A url check that reports and goes on.
verifiedAnyway(match) == "cloneRepo"

\* verifyGitUrl (main.go:114-121): where the run goes behind the check.
verified(match) == IF match THEN "cloneRepo" ELSE "exited"

\* main (main.go:92-96): without a url there is nothing to do.
Main ==
    /\ pc = "main"
    /\ IF opts.GitUrl # ""
       THEN /\ out' = Append(out, text("Starting engine (" \o VERSION \o ")",
                                       "FgYellow"))
            /\ pc' = "verifyGitUrl"
       ELSE /\ out' = out
            /\ pc' = "done"
    /\ UNCHANGED <<opts, clone, config, fs, i, j, trace, call>>

\* verifyGitUrl (main.go:109-122).
VerifyGitUrl ==
    /\ pc = "verifyGitUrl"
    /\ out' = out \o
         << text("Checking git url format (" \o opts.GitUrl \o ")", "FgYellow"),
            IF MatchString(opts.GitUrl)
            THEN text("Git url format successfuly verified", "FgYellow")
            ELSE text("Git url format is not valid", "FgRed") >>
    /\ pc' = verified(MatchString(opts.GitUrl))
    /\ UNCHANGED <<opts, clone, config, fs, i, j, trace, call>>

\* cloneRepo (main.go:129-133) up to the start of git.
CloneRepo ==
    /\ pc = "cloneRepo"
    /\ LET argv == <<"git", "clone", opts.GitUrl, "-b", opts.Branch>>
           line == text("Cloning git repository (branch: " \o opts.Branch \o ")",
                        "FgYellow")
       IN  \E started \in CanStart(argv) :
             IF started
             THEN /\ pc' = "clone"
                  /\ out' = Append(out, line)
                  /\ trace' = Append(trace, Event("spawn", -1, -1, argv))
             ELSE /\ pc' = "exited"
                  /\ out' = out \o <<line, text("", "FgRed")>>
                  /\ trace' = Append(trace, Event("result", -1, -1, StartErr(argv)))
    /\ UNCHANGED <<opts, clone, config, fs, i, j, call>>

\* git ends (main.go:302-305): with status 0 it has made one of the trees of
\* `made` in its own directory.
CloneReturn(made) ==
    /\ pc = "clone"
    /\ \E code \in ExitCodes :
         /\ trace' = trace \o <<Event("reap", -1, -1, "git clone"),
                                Event("result", -1, -1, RunErr(code))>>
         /\ IF code = 0
            THEN /\ clone' \in made
                 /\ out' = out
                 /\ pc' = "unmarshalConfig"
            ELSE /\ clone' = clone
                 /\ out' = Append(out, text(Stderr(<<"git">>, code), "FgRed"))
                 /\ pc' = "exited"
    /\ UNCHANGED <<opts, config, fs, i, j, call>>

\* unmarshalConfig (main.go:141-159) up to the call of processConfig.  The
\* error of os.Chdir is dropped: when the directory found is not the one git
\* made, the process stays where it was started.
UnmarshalConfig ==
    /\ pc = "unmarshalConfig"
    /\ IF findRepoNamePanics(opts.GitUrl)
       THEN /\ pc' = "panic"
            /\ UNCHANGED <<config, fs, out, trace>>
       ELSE LET g == IF findRepoName(opts.GitUrl) = CloneDir(opts.GitUrl)
                     THEN clone ELSE fs
                err == ReadFileErr(g, ".cappuccino.yml")
                parsed == Unmarshal(g[".cappuccino.yml"].data)
            IN  /\ fs' = g
                /\ IF err # Nil
                   THEN /\ out' = Append(out, text("Error opening .cappuccino.yml file",
                                                   "FgRed"))
                        /\ trace' = Append(trace, Event("manifest", -1, -1, err))
                        /\ pc' = "exited"
                        /\ config' = config
                   ELSE IF parsed.err # Nil
                   THEN /\ out' = out \o <<text("File .cappuccino.yml detected",
                                                "FgYellow"),
                                           text(parsed.err, "FgRed")>>
                        /\ trace' = Append(trace,
                                           Event("manifest", -1, -1, parsed.err))
                        /\ pc' = "exited"
                        /\ config' = config
                   ELSE /\ out' = out \o <<text("File .cappuccino.yml detected",
                                                "FgYellow"),
                                           text("Detected version: "
                                                    \o parsed.config.Version,
                                                "FgYellow")>>
                        /\ trace' = Append(trace, Event("manifest", -1, -1, Nil))
                        /\ pc' = "processConfig"
                        /\ config' = parsed.config
    /\ UNCHANGED <<opts, clone, i, j, call>>

\* Urls: none, the README's, an https one, one without a slash, one with
\* a slash behind it, and two that are no git urls.
GitUrls ==
    {"", "git@github.com:u/r.git", "https://github.com/u/r.git",
     "git@github.com:r.git", "git@github.com:u/r.git/", "github.com/u/r",
     "ftp://github.com/u/r.git"}

\* The repository as git clones it: its manifest good, broken, unreadable
\* or missing.
MainClones ==
    { [ClonedTree(File("X\n", "rw")) EXCEPT ![".cappuccino.yml"] = m] :
          m \in {NoFile, File(ManifestEngine, "rw"), File(ManifestSetup, "rw"),
                 File(ManifestBroken, "rw"), File(ManifestSetup, "")} }

\* The directory the program is started in: empty, or an earlier checkout.
StartTrees ==
    { EmptyTree,
      [EmptyTree EXCEPT ![".cappuccino.yml"] = File(ManifestSetup, "rw"),
                        ![".git"] = Directory("rw"),
                        !["a.txt"] = File("X\n", "rw")] }

InitMain ==
    /\ opts \in { [GitUrl |-> u, Branch |-> "master"] : u \in GitUrls }
    /\ clone = EmptyTree
    /\ config = ZeroConfig
    /\ fs \in StartTrees
    /\ pc = "main"
    /\ i = 0
    /\ j = 0
    /\ out = <<>>
    /\ trace = <<>>
    /\ call = NoCall

NextMain ==
    \/ Main
    \/ VerifyGitUrl
    \/ CloneRepo
    \/ CloneReturn(MainClones)
    \/ UnmarshalConfig
    \/ Next

SpecMain == InitMain /\ [][NextMain]_vars

(***************************************************************************)
(* C14: a url that verifyGitUrl rejects, a manifest that cannot be read    *)
(* and a manifest that does not parse are reported and end the run before  *)
(* anything is changed: for a rejected url no process is started, so       *)
(* nothing is cloned; in all three cases `rm -rf .git` is never started,   *)
(* no content entry is dispatched, no file of the working directory or of  *)
(* the clone is touched, and the process has exited.                       *)
(***************************************************************************)
C14_ManifestFailed ==
    trace # <<>> /\ trace[Len(trace)].ev = "manifest" /\ trace[Len(trace)].what # Nil

C14_Stopped ==
    /\ (opts.GitUrl # "" /\ ~MatchString(opts.GitUrl)) =>
         /\ trace = <<>>
         /\ clone = EmptyTree
         /\ config = ZeroConfig
         /\ pc \in {"main", "verifyGitUrl", "exited"}
         /\ pc = "exited" =>
              out[Len(out)] = text("Git url format is not valid", "FgRed")
    /\ \A p \in 1..Len(trace) :
         (trace[p].ev = "manifest" /\ trace[p].what # Nil) => p = Len(trace)
    /\ C14_ManifestFailed =>
         /\ pc = "exited"
         /\ config = ZeroConfig
         /\ \A q \in 1..Len(trace) :
              /\ trace[q].ev # "dispatch"
              /\ trace[q].ev = "spawn" => trace[q].what[1] = "git"
         /\ out[Len(out)] \in
              { text("Error opening .cappuccino.yml file", "FgRed"),
                text(trace[Len(trace)].what, "FgRed") }

C14_NothingTouched ==
    /\ pc \in {"main", "verifyGitUrl", "cloneRepo", "clone"} => fs' = fs
    /\ pc = "unmarshalConfig" => (fs' \in {fs, clone} /\ clone' = clone)
    /\ pc = "exited" => UNCHANGED vars

C14_StopsBeforeAnyMutation == [](C14_Stopped) /\ [][C14_NothingTouched]_vars

C14_Witness ==
    /\ pc = "exited"
    /\ opts.GitUrl = "git@github.com:u/r.git"
    /\ C14_ManifestFailed
    /\ clone[".cappuccino.yml"].data = ManifestBroken
    /\ fs = clone
    /\ fs[".git"] = Directory("rw")
    /\ out[Len(out)] = text("yaml: line 1: did not find expected node content",
                            "FgRed")

(***************************************************************************)
(* C15: when the marker occurs neither in the indented value nor in the    *)
(* content the first call of substituteInFile left (so none was formed     *)
(* where written and surrounding text meet), a second call with the same   *)
(* arguments returns what the first returned and leaves the tree as the    *)
(* first left it.                                                          *)
(***************************************************************************)
C15_Idempotent ==
    ( /\ call.fn = "substituteInFile twice"
      /\ ~Contains(ExpectedBlock(call.args.value, call.args.indent),
                   call.args.variable)
      /\ ~Contains(call.once[call.args.path].data, call.args.variable) )
    => /\ fs = call.once
       /\ call.err = call.firstErr
       /\ ~call.panic

C15_Witness ==
    /\ call.fn = "substituteInFile twice"
    /\ call.args = [path |-> "a.txt", variable |-> "X", value |-> "\na", indent |-> 2]
    /\ call.before["a.txt"] = File("XaX", "rw")
    /\ call.once["a.txt"].data = "\n  aa\n  a"
    /\ fs = call.once

(***************************************************************************)
(* C16: `rm -rf .git` is started at most once in a run, right behind the   *)
(* parsing of the manifest; a content entry is dispatched only after it    *)
(* ended without error, .git being gone when it did; a run that got a      *)
(* manifest and came to its end has removed .git, also when the manifest   *)
(* holds no action; and a removal that fails is the last thing of the run. *)
(***************************************************************************)
C16_RemovalAt ==
    { p \in 1..Len(trace) :
          trace[p].ev = "spawn" /\ trace[p].what = <<"rm", "-rf", ".git">> }

C16_GitRemovedOnceBeforeEntries ==
    /\ Cardinality(C16_RemovalAt) <= 1
    /\ \A p \in C16_RemovalAt :
         /\ p > 1
         /\ trace[p - 1] = Event("manifest", -1, -1, Nil)
         /\ Len(trace) >= p + 2 =>
              /\ trace[p + 1].ev = "reap"
              /\ trace[p + 2].ev = "result"
              /\ trace[p + 2].a = -1
              /\ (trace[p + 2].what # Nil) => (Len(trace) = p + 2 /\ pc = "exited")
              /\ (trace[p + 2].what = Nil /\ Len(trace) = p + 2) => ~Exists(fs, ".git")
    /\ \A q \in DispatchAt :
         \E p \in C16_RemovalAt : p + 2 < q /\ trace[p + 2].what = Nil
    /\ (pc = "done" /\ trace # <<>>) =>
         \E p \in C16_RemovalAt : trace[p + 2].what = Nil
    /\ (trace # <<>> /\ trace[Len(trace)] = Event("manifest", -1, -1, Nil))
         => pc = "processConfig"

C16_Witness ==
    /\ pc = "done"
    /\ config = [ZeroConfig EXCEPT !.Engine = "cappuccino"]
    /\ C16_RemovalAt # {}
    /\ clone[".git"] = Directory("rw")
    /\ fs[".git"] = NoFile

(***************************************************************************)
(* C17: the dispatch of an entry of a recognised kind prints the progress  *)
(* line of the entry, once and before anything else the step prints; when  *)
(* the operation fails the only other line is its error, behind the        *)
(* progress line, and when a child process is started the line is out      *)
(* while the child runs.  An entry of no recognised kind prints nothing.   *)
(***************************************************************************)
\* The progress line of entry e dispatched as kind t.
C17_Progress(t, e) ==
    "Engine \t-> " \o
        ( CASE t = "exec" -> e.Command
            [] t = "replace" ->
                 e.Text \o " in " \o (IF e.Path = "" THEN "all files" ELSE e.Path)
            [] t = "substitute" ->
                 "[cappuccino-var-" \o e.Variable \o "] in "
                     \o (IF e.Path = "" THEN "all files" ELSE e.Path)
            [] t \in {"copy", "move"} -> e.Source \o " -> " \o e.Destination
            [] t = "template" -> ".cappuccino/" \o e.Path \o " -> " \o e.Path
            [] t = "delete" -> e.Path )
        \o "\n"

C17_StepOf(t, e) ==
    IF t \in Recognised
    THEN /\ Len(out') \in {Len(out) + 1, Len(out) + 2}
         /\ SubSeq(out', 1, Len(out)) = out
         /\ out'[Len(out) + 1] = C17_Progress(t, e)
         /\ Len(out') = Len(out) + 2 <=> pc' = "exited"
         /\ pc' = "exited" => out'[Len(out')] # C17_Progress(t, e)
    ELSE out' = out

C17_OneProgressLineFirst ==
    [][ (pc = "content" /\ j < Len(CurAction.Content))
        => C17_StepOf(IF CurContent.Type = "" THEN CurAction.Type
                      ELSE CurContent.Type, CurContent) ]_vars

C17_Witness ==
    /\ pc = "exited"
    /\ EntryAt(0, 0).Type = "delete"
    /\ EntryAt(0, 0).Path = ""
    /\ out[Len(out) - 1] = "Engine \t-> \n"
    /\ out[Len(out)] = "Engine remove : no such file or directory\n"

(***************************************************************************)
(* C18: the dispatch of a template entry with path P does what copyFile    *)
(* from ".cappuccino/" + P to P does and what the dispatch of the copy     *)
(* entry with that source and destination does - the same tree, the same   *)
(* lines printed, the same error and end of the run - whatever the         *)
(* template entry's own source and destination fields hold.                *)
(***************************************************************************)
C18_StepOf(e) ==
    LET want == copyFile(fs, ".cappuccino/" \o e.Path, e.Path)
        twin == processContent(fs, CurAction,
                               [ZeroContent EXCEPT !.Type = "copy",
                                                   !.Source = ".cappuccino/" \o e.Path,
                                                   !.Destination = e.Path])
    IN  /\ fs' = want.fs
        /\ (pc' = "exited") = (want.err # Nil)
        /\ (pc' = "content") = (want.err = Nil)
        /\ trace'[Len(trace')] = Event("result", i, j, want.err)
        /\ trace'[Len(trace') - 1] = Event("dispatch", i, j, "copyFile")
        /\ fs' = twin.fs
        /\ out' = out \o twin.out
        /\ twin.err = want.err

C18_TemplateIsCopyFromStaging ==
    [][ ( /\ pc = "content"
          /\ j < Len(CurAction.Content)
          /\ (IF CurContent.Type = "" THEN CurAction.Type ELSE CurContent.Type)
                 = "template" )
        => C18_StepOf(CurContent) ]_vars

C18_Witness ==
    /\ pc = "done"
    /\ EntryAt(0, 0).Type = "template"
    /\ EntryAt(0, 0).Path = "a.txt"
    /\ EntryAt(0, 0).Source = "a.txt"
    /\ EntryAt(0, 0).Destination = "d.txt"
    /\ fs["a.txt"].data = "T [cappuccino-var-X]\n"
    /\ fs[".cappuccino/a.txt"].data = "T [cappuccino-var-X]\n"
    /\ fs["d.txt"] = NoFile

(***************************************************************************)
(* C19: when moveFile returns the error of removing the source - the copy  *)
(* went well, the delete did not - the source is there as it was and the   *)
(* destination is a file with the content the source had; when it returns  *)
(* the error of the copy, a source that was there is still there.          *)
(***************************************************************************)
C19_CopyThenDelete ==
    (call.fn = "moveFile" /\ call.err # Nil) =>
        IF HasPrefix(call.err, "remove ")
        THEN /\ Stat(fs, call.args.source) = Stat(call.before, call.args.source)
             /\ Exists(fs, call.args.source)
             /\ IsRegular(fs, call.args.destination)
             /\ Stat(fs, call.args.destination).data
                    = Stat(call.before, call.args.source).data
        ELSE Exists(call.before, call.args.source) => Exists(fs, call.args.source)

(***************************************************************************)
(* C20: a substitution over the whole tree that meets a file it cannot     *)
(* read or cannot write returns the error of the first such file in the    *)
(* order of the visit; that file and every file behind it are as they      *)
(* were, and every file in front of it holds its substituted content.      *)
(***************************************************************************)
\* The places in the order of the visit of the files that cannot be read
\* or cannot be written.
C20_Bad(f) ==
    { k \in 1..Len(WalkOrder) :
          IsRegular(f, WalkOrder[k]) /\ f[WalkOrder[k]].mode # "rw" }

C20_FirstFailureAbortsWalk ==
    ( /\ call.fn = "substituteFile"
      /\ call.args.path = ""
      /\ C20_Bad(call.before) # {} )
    => LET k == CHOOSE b \in C20_Bad(call.before) :
                    \A m \in C20_Bad(call.before) : b <= m
       IN  /\ call.err = "open " \o WalkOrder[k] \o ": permission denied"
           /\ \A m \in 1..Len(WalkOrder) :
                fs[WalkOrder[m]] =
                    IF m < k /\ IsRegular(call.before, WalkOrder[m])
                    THEN [call.before[WalkOrder[m]] EXCEPT !.data =
                             ScanReplace(call.before[WalkOrder[m]].data,
                                         call.args.variable,
                                         ExpectedBlock(call.args.value,
                                                       call.args.indent))]
                    ELSE call.before[WalkOrder[m]]

C20_Witness ==
    /\ call.fn = "substituteFile"
    /\ call.args = [path |-> "", variable |-> "X", value |-> "Y", indent |-> 0]
    /\ call.before = [FullTree EXCEPT !["a.txt"].mode = "r"]
    /\ call.err = "open a.txt: permission denied"
    /\ fs[".cappuccino/a.txt"].data = "aYbY\n"
    /\ fs[".cappuccino.yml"].data = "aYbY\n"
    /\ fs["a.txt"].data = "aXbX\n"
    /\ fs["b/c.txt"].data = "aXbX\n"
    /\ fs["b/e/f.txt"].data = "aXbX\n"

(***************************************************************************)
(* C21: a substitution - in one file or over the whole tree - whose marker *)
(* occurs in none of the files it visits, all of them readable, returns no *)
(* error and leaves the tree as it was, also when one of the files cannot  *)
(* be written.                                                             *)
(***************************************************************************)
\* The files a call of substituteFile visits.
C21_VisitedFiles(f, path) ==
    IF path # "" THEN {path} ELSE { p \in Paths : IsRegular(f, p) }

C21_AbsentMarkerIsNoOp ==
    ( /\ call.fn = "substituteFile"
      /\ call.args.variable # ""
      /\ \A p \in C21_VisitedFiles(call.before, call.args.path) :
           /\ IsRegular(call.before, p)
           /\ CanRead(call.before, p)
           /\ ~Contains(call.before[p].data, call.args.variable) )
    => /\ call.err = Nil
       /\ ~call.panic
       /\ fs = call.before


(***************************************************************************)
(* C22: the warning scan never ends the process, and a file it cannot open *)
(* is skipped without a word: what the scan prints is what it prints when  *)
(* every file can be read, less the lines of the files that cannot - so    *)
(* every other file, those visited later included, has all of its marker   *)
(* lines reported.                                                         *)
(***************************************************************************)
\* The regular files of a tree that cannot be opened for reading.
C22_Unopenable(f) == { p \in Paths : IsRegular(f, p) /\ ~CanRead(f, p) }

\* The tree with every regular file readable.
C22_AllReadable(f) ==
    [p \in Paths |-> IF IsRegular(f, p) THEN File(f[p].data, "rw") ELSE f[p]]

\* Whether a printed line is a report about one of the files of a set.
C22_ReportOf(line, f, files) ==
    \E p \in files : \E n \in 1..Len(ScanLines(f[p].data)) :
        line = warningText(n, p)

C22_Kept(line) ==
    ~C22_ReportOf(line, call.before, C22_Unopenable(call.before))

C22_UnreadableFileIsSkipped ==
    call.fn = "processWarnings" =>
        /\ pc = "unit"
        /\ ~call.panic
        /\ call.err = Nil
        /\ fs = call.before
        /\ out = SelectSeq(processWarnings(C22_AllReadable(call.before)), C22_Kept)

\* a.txt holds the token and cannot be read; the files visited after it,
\* b/c.txt and b/e/f.txt, are reported.
C22_Witness ==
    /\ call.fn = "processWarnings"
    /\ C22_Unopenable(call.before) = {"a.txt"}
    /\ Contains(call.before["a.txt"].data, WarningToken)
    /\ out = <<text("Parsing repository for valuable information", "FgYellow"),
               warningText(1, "b/c.txt"), warningText(1, "b/e/f.txt")>>


(***************************************************************************)
(* The runs that end in the warning scan or before it: entries that change *)
(* what the scan finds - a deletion of the file that holds the token, a    *)
(* replacement that writes the token - and a child process, over a tree    *)
(* where each succeeds once and a tree where the replacement fails.  The   *)
(* program is one thread that runs each step to its end, and a child that  *)
(* was started is taken to exit: a step that can be taken is taken.        *)
(***************************************************************************)
ScanTypes == {""}

ScanEntries ==
    { [ZeroContent EXCEPT !.Type = "exec", !.Command = "make all"],
      [ZeroContent EXCEPT !.Type = "delete", !.Path = "b/c.txt"],
      [ZeroContent EXCEPT !.Type = "replace", !.Path = "a.txt", !.Text = "X",
                          !.Value = WarningToken] }

ScanTrees == { ClonedTree(File("X\n", "rw")), ClonedTree(NoFile) }

InitScan ==
    /\ config \in { ConfigOf(m) : m \in Manifests(ScanTypes, ScanEntries) }
    /\ fs \in ScanTrees
    /\ opts = DefaultOpts
    /\ clone = fs
    /\ pc = "processConfig"
    /\ i = 0
    /\ j = 0
    /\ out = <<>>
    /\ trace = <<>>
    /\ call = NoCall

\* The step of ProcessWarnings as the control state shows it: processConfig
\* has returned and the process goes on to its end (main.go:160-162).
ScanStep ==
    /\ pc = "actions"
    /\ i >= Len(config.Actions)
    /\ pc' = "done"

SpecScan ==
    /\ InitScan
    /\ [][Next]_vars
    /\ WF_vars(ProcessAction)
    /\ WF_vars(ActionReturn)
    /\ WF_pc(ScanStep)

(***************************************************************************)
(* C23: the warning scan runs at most once, as the last step of the run,   *)
(* and only when every content entry of the manifest was dispatched and    *)
(* returned without error; what it prints is the scan of the tree the      *)
(* entries left.  Once the last entry has returned without error the scan  *)
(* eventually runs; in no state that follows a failure of an entry (or of  *)
(* the removal of .git) has it run.                                        *)
(***************************************************************************)
C23_Scans == { p \in 1..Len(trace) : trace[p].ev = "warnings" }

\* The results of the history that are failures, of an entry or of rm.
C23_Failures == { p \in 1..Len(trace) : trace[p].ev = "result" /\ trace[p].what # Nil }

\* The content entries that returned without error.
C23_Succeeded ==
    { <<trace[p].a, trace[p].c>> :
        p \in { q \in 1..Len(trace) : /\ trace[q].ev = "result"
                                      /\ trace[q].a >= 0
                                      /\ trace[q].what = Nil } }

\* .git is removed and every content entry of the manifest has returned
\* without error.
C23_WalkSucceeded ==
    /\ \E p \in 1..Len(trace) :
         trace[p].ev = "result" /\ trace[p].a = -1 /\ trace[p].what = Nil
    /\ C23_Succeeded = { FlatOrder[k] : k \in 1..Len(FlatOrder) }

C23_ScanSafe ==
    /\ Cardinality(C23_Scans) <= 1
    /\ C23_Failures # {} => C23_Scans = {}
    /\ pc = "done" <=> C23_Scans # {}
    /\ C23_Scans # {} =>
         LET scan == processWarnings(fs)
         IN  /\ C23_Scans = {Len(trace)}
             /\ C23_WalkSucceeded
             /\ Dispatched = FlatOrder
             /\ Len(out) >= Len(scan)
             /\ SubSeq(out, Len(out) - Len(scan) + 1, Len(out)) = scan

C23_ScanOnceAfterWalk ==
    /\ []C23_ScanSafe
    /\ C23_WalkSucceeded ~> (C23_Scans # {})

\* A run of three entries - the token written to a.txt, a child process,
\* the file that held the token deleted - ended in the scan of the tree
\* they left: one report, for a.txt.
C23_Witness ==
    /\ pc = "done"
    /\ Len(FlatOrder) = 3
    /\ \E p \in 1..Len(trace) : trace[p].ev = "reap" /\ trace[p].a >= 0
    /\ ~Exists(fs, "b/c.txt")
    /\ out[Len(out)] = warningText(1, "a.txt")
    /\ out[Len(out) - 1] = text("Parsing repository for valuable information",
                                "FgYellow")


(***************************************************************************)
(* C24: a copyFile (or the copy of a moveFile) whose source cannot be      *)
(* opened returns the error of that open and leaves the whole tree as it   *)
(* was: the destination is not created and, if it was there, keeps its     *)
(* content.                                                                *)
(***************************************************************************)
C24_SourceOpenFailureTouchesNothing ==
    ( /\ call.fn \in {"copyFile", "moveFile"}
      /\ OpenErr(call.before, call.args.source) # Nil )
    => /\ call.err = OpenErr(call.before, call.args.source)
       /\ fs = call.before


(***************************************************************************)
(* C25: when copyFile returns no error, the destination holds what the     *)
(* source held before the call and the source holds what it held - for     *)
(* every pair of paths, a destination that was there and a destination     *)
(* that is the source included.                                            *)
(***************************************************************************)
C25_CopyIsFaithful ==
    (call.fn = "copyFile" /\ call.err = Nil) =>
        /\ IsRegular(call.before, call.args.source)
        /\ IsRegular(fs, call.args.destination)
        /\ Stat(fs, call.args.destination).data
               = Stat(call.before, call.args.source).data
        /\ Stat(fs, call.args.source).data
               = Stat(call.before, call.args.source).data


(***************************************************************************)
(* C26: the manifest is read and the walker runs only in the directory git *)
(* made.  When the directory unmarshalConfig derives from the url is not   *)
(* that directory - the change of directory fails - no manifest is loaded, *)
(* rm -rf .git is not started and no content entry is dispatched: the      *)
(* directory the program was started in stays as it was.                   *)
(***************************************************************************)
\* git has made its directory and the name derived from the url is another.
C26_ChdirFails ==
    /\ clone # EmptyTree
    /\ ~findRepoNamePanics(opts.GitUrl)
    /\ findRepoName(opts.GitUrl) # CloneDir(opts.GitUrl)

C26_NothingRunsOutsideTheClone ==
    C26_ChdirFails =>
        /\ config = ZeroConfig
        /\ pc \notin {"processConfig", "rmgit", "actions", "content", "exec", "done"}
        /\ \A p \in 1..Len(trace) :
             /\ trace[p].ev # "dispatch"
             /\ trace[p].ev = "manifest" => trace[p].what # Nil
             /\ trace[p].ev = "spawn" => trace[p].what # <<"rm", "-rf", ".git">>


(***************************************************************************)
(* C27: a replace or substitute entry that names a file which can be read  *)
(* and written puts, in place of each occurrence of its marker, its value  *)
(* without the white space before its first and behind its last other      *)
(* character, indented; the white space and the newlines inside the value  *)
(* are kept.  (It is not the value as the manifest gives it: white space   *)
(* and newlines at its two ends are dropped.)                              *)
(***************************************************************************)
C27_Blank(s) == \A k \in 1..Len(s) : SubSeq(s, k, k) \in {" ", "\t", "\n", "\r"}

\* The value between its leading and its trailing white space.
C27_Trimmed(v) ==
    LET cuts == { c \in (0..Len(v)) \X (0..Len(v)) :
                    /\ c[1] <= c[2]
                    /\ C27_Blank(Slice(v, 0, c[1]))
                    /\ C27_Blank(SliceFrom(v, c[2]))
                    /\ \/ c[1] = c[2]
                       \/ /\ ~C27_Blank(Slice(v, c[1], c[1] + 1))
                          /\ ~C27_Blank(Slice(v, c[2] - 1, c[2])) }
        cut  == CHOOSE c \in cuts : TRUE
    IN  Slice(v, cut[1], cut[2])

C27_Type == IF CurContent.Type = "" THEN CurAction.Type ELSE CurContent.Type

\* A replace or substitute entry is about to be dispatched on a file that
\* can be read and written, with a marker that is not empty.
C27_AtEntry ==
    /\ pc = "content"
    /\ j < Len(CurAction.Content)
    /\ C27_Type \in {"replace", "substitute"}
    /\ CurContent.Path # ""
    /\ Stat(fs, CurContent.Path).mode = "rw"
    /\ C10_Marker(C27_Type, CurContent) # ""

\* The step writes the file with `inserted`, indented, for each marker.
C27_StepInserts(inserted) ==
    fs' = [fs EXCEPT ![CurContent.Path].data =
               ScanReplace(fs[CurContent.Path].data,
                           C10_Marker(C27_Type, CurContent),
                           ExpectedBlock(inserted, CurContent.Indent))]

C27_InsertsValueAsGiven ==
    [][ C27_AtEntry => C27_StepInserts(CurContent.Value) ]_vars

C27_InsertsTrimmedValue ==
    [][ C27_AtEntry => C27_StepInserts(C27_Trimmed(CurContent.Value)) ]_vars

\* " Y\nZ\n" with indent 2 was put in place of X three times: as "Y\n  Z".
C27_Witness ==
    /\ pc = "done"
    /\ EntryAt(0, 0).Type = "replace"
    /\ EntryAt(0, 0).Text = "X"
    /\ EntryAt(0, 0).Path = "a.txt"
    /\ EntryAt(0, 0).Value = " Y\nZ\n"
    /\ EntryAt(0, 0).Indent = 2
    /\ clone["a.txt"].data = "X [cappuccino-var-X]\n  [cappuccino-var-v] X\n"
    /\ fs["a.txt"].data
           = "Y\n  Z [cappuccino-var-Y\n  Z]\n  [cappuccino-var-v] Y\n  Z\n"


(***************************************************************************)
(* C28: a replace entry whose search string is empty changes the content   *)
(* of no file, whether it names one file or leaves the whole tree to be    *)
(* searched.                                                               *)
(***************************************************************************)
C28_EmptySearchChangesNothing ==
    [][ ( /\ pc = "content"
          /\ j < Len(CurAction.Content)
          /\ (IF CurContent.Type = "" THEN CurAction.Type ELSE CurContent.Type)
                 = "replace"
          /\ CurContent.Text = "" )
        => \A p \in Paths : fs'[p].data = fs[p].data ]_vars

====
